---- MODULE Spec2Model ----
(***************************************************************************)
(* State-Machine-Visualizer: the finite-state-machine engine.              *)
(*                                                                         *)
(* parseMachine (src/src/lib/parser.ts) builds a graph from a definition,  *)
(* SimulationEngine (src/src/lib/simulation.ts) executes events on it.     *)
(* JavaScript arrays are objects with identity: they live in `heap`, and a *)
(* SimulationState holds the addresses of its history and log arrays.      *)
(* Optional values (a missing key, undefined) are sequences of length 0    *)
(* or 1.  A JavaScript Map, and an object's own keys, are sequences of     *)
(* [key, val] entries in insertion order.                                  *)
(***************************************************************************)
EXTENDS Integers, Sequences, FiniteSets, TLC

VARIABLES
    graph,        \* the StateMachineGraph object the engine was built on
    heap,         \* the arrays: address -> sequence of strings
    sim,          \* SimulationEngine.state of the engine (this.state)
    snap,         \* a SimulationState value a caller holds (None or <<s>>)
    last,         \* the last call: its name, arguments and return value
    ctorInitial,  \* the id the engine's constructor read from graph.initial
    job,          \* a definition handed to parseMachine and analyzeGraph, and what they returned
    api           \* the fields of a StateMachineAPI

vars == <<graph, heap, sim, snap, last, ctorInitial, job, api>>

---------------------------------------------------------------------------
(* Bounds *)

MaxSteps == 3      \* no call is offered that would take steps past MaxSteps
MaxLog == 4        \* no call is offered that would leave a log of more than MaxLog entries
HeapSize == 4      \* number of array addresses

Addrs == 1..HeapSize

None == <<>>
Some(x) == <<x>>

---------------------------------------------------------------------------
(* Ordered maps: JavaScript Map and Object.entries order *)

MapHas(m, k) == \E i \in DOMAIN m : m[i].key = k

MapGet(m, k) == m[CHOOSE i \in DOMAIN m : m[i].key = k].val

MapSet(m, k, v) ==
    IF MapHas(m, k)
    THEN [i \in DOMAIN m |-> IF m[i].key = k THEN [key |-> k, val |-> v] ELSE m[i]]
    ELSE Append(m, [key |-> k, val |-> v])

MapKeys(m) == [i \in DOMAIN m |-> m[i].key]

Range(s) == {s[i] : i \in DOMAIN s}

---------------------------------------------------------------------------
(* Machine definitions: the input of parseMachine *)

\* "B"
Str(t) == [isString |-> TRUE, target |-> t, cond |-> None, actions |-> None]
\* {target: "B", cond: c, actions: a}
Obj(t, c, a) == [isString |-> FALSE, target |-> t, cond |-> c, actions |-> a]

On(e, d) == [key |-> e, val |-> d]

StateDef(type, on) == [type |-> type, on |-> on]

Definition(initial, states) ==
    [isObject |-> TRUE, initial |-> initial, states |-> states]

\* null, as the value of a key of `states` or of `on`
Null == [isNull |-> TRUE]

---------------------------------------------------------------------------
(* parseMachine *)

NoError == [code |-> "", details |-> "", path |-> <<>>]

\* Mutant: the constructor forgets the path
ParserErrorDropsPath(code, details, path) == [code |-> code, details |-> details, path |-> None]

ParserError(code, details, path) == [code |-> code, details |-> details, path |-> path]

\* the TypeError of a property read on null: no ParserError, it has a message and no code
TypeError(property) ==
    [code |-> "TypeError",
     details |-> "Cannot read properties of null (reading '" \o property \o "')",
     path |-> None]

ParserErrorCodes == {"INVALID_SCHEMA", "MISSING_INITIAL", "INVALID_REFERENCE"}

\* error instanceof ParserError
IsParserError(error) == error.code \in ParserErrorCodes

EmptyGraph == [initial |-> "", nodes |-> <<>>]

\* Mutant: the transition is filed under its target
normalizeTransitionSourceIsTarget(targetDef, sourceId, event) ==
    [source |-> targetDef.target, target |-> targetDef.target, event |-> event,
     cond |-> IF targetDef.isString THEN None ELSE targetDef.cond,
     actions |-> IF targetDef.isString \/ targetDef.actions = None
                 THEN <<>> ELSE targetDef.actions[1]]

normalizeTransition(targetDef, sourceId, event) ==
    IF targetDef.isString
    THEN [source |-> sourceId, target |-> targetDef.target, event |-> event,
          cond |-> None, actions |-> <<>>]
    ELSE [source |-> sourceId, target |-> targetDef.target, event |-> event,
          cond |-> targetDef.cond,
          actions |-> IF targetDef.actions = None THEN <<>> ELSE targetDef.actions[1]]

\* First pass: one node per entry of `states`
RECURSIVE CreateNodes(_, _)
CreateNodes(entries, nodes) ==
    IF entries = <<>> THEN nodes
    ELSE LET id == Head(entries).key
             def == Head(entries).val
             node == [id |-> id,
                      type |-> IF def.type = None THEN "default" ELSE def.type[1],
                      transitions |-> <<>>,
                      outgoing |-> <<>>]
         IN CreateNodes(Tail(entries), MapSet(nodes, id, node))

\* the keys declared up to and including id
DeclaredUpTo(nodes, id) ==
    {nodes[i].key : i \in {j \in DOMAIN nodes : \E k \in j..Len(nodes) : nodes[k].key = id}}

\* Mutant: one pass, a target must be declared no later than its source
RECURSIVE LinkEventsDeclaredBefore(_, _, _)
LinkEventsDeclaredBefore(id, onEntries, acc) ==
    IF ~acc.ok \/ onEntries = <<>> THEN acc
    ELSE LET event == Head(onEntries).key
             t == normalizeTransition(Head(onEntries).val, id, event)
         IN IF t.target \notin DeclaredUpTo(acc.nodes, id)
            THEN [ok |-> FALSE, nodes |-> acc.nodes,
                  error |-> ParserError("INVALID_REFERENCE", "", Some(<<"states", id, "on", event>>))]
            ELSE LET src == MapGet(acc.nodes, id)
                     linked == [src EXCEPT !.transitions = MapSet(@, event, t),
                                           !.outgoing = Append(@, t)]
                 IN LinkEventsDeclaredBefore(id, Tail(onEntries),
                                             [acc EXCEPT !.nodes = MapSet(@, id, linked)])

\* Mutant: targets are linked without being looked up
RECURSIVE LinkEventsUnchecked(_, _, _)
LinkEventsUnchecked(id, onEntries, acc) ==
    IF ~acc.ok \/ onEntries = <<>> THEN acc
    ELSE LET event == Head(onEntries).key
             t == normalizeTransition(Head(onEntries).val, id, event)
             src == MapGet(acc.nodes, id)
             linked == [src EXCEPT !.transitions = MapSet(@, event, t),
                                   !.outgoing = Append(@, t)]
         IN LinkEventsUnchecked(id, Tail(onEntries),
                                [acc EXCEPT !.nodes = MapSet(@, id, linked)])

\* Mutant: a transition is entered in the event table and not pushed to outgoing
RECURSIVE LinkEventsTableOnly(_, _, _)
LinkEventsTableOnly(id, onEntries, acc) ==
    IF ~acc.ok \/ onEntries = <<>> THEN acc
    ELSE LET event == Head(onEntries).key
             t == normalizeTransition(Head(onEntries).val, id, event)
         IN IF ~MapHas(acc.nodes, t.target)
            THEN [ok |-> FALSE, nodes |-> acc.nodes,
                  error |-> ParserError("INVALID_REFERENCE", "",
                                        Some(<<"states", id, "on", event>>))]
            ELSE LET src == MapGet(acc.nodes, id)
                     linked == [src EXCEPT !.transitions = MapSet(@, event, t)]
                 IN LinkEventsTableOnly(id, Tail(onEntries),
                                        [acc EXCEPT !.nodes = MapSet(@, id, linked)])

\* Second pass, inner loop: the entries of one state's `on`
RECURSIVE LinkEvents(_, _, _)
LinkEvents(id, onEntries, acc) ==
    IF ~acc.ok \/ onEntries = <<>> THEN acc
    \* normalizeTransition reads targetDef.target of a value that is no string
    ELSE IF Head(onEntries).val = Null
    THEN [ok |-> FALSE, nodes |-> acc.nodes, error |-> TypeError("target")]
    ELSE LET event == Head(onEntries).key
             t == normalizeTransition(Head(onEntries).val, id, event)
         IN IF ~MapHas(acc.nodes, t.target)
            THEN [ok |-> FALSE, nodes |-> acc.nodes,
                  error |-> ParserError("INVALID_REFERENCE",
                                        "State '" \o id \o "' transitions to unknown target '"
                                            \o t.target \o "' on event '" \o event \o "'.",
                                        Some(<<"states", id, "on", event>>))]
            ELSE LET src == MapGet(acc.nodes, id)
                     linked == [src EXCEPT !.transitions = MapSet(@, event, t),
                                           !.outgoing = Append(@, t)]
                 IN LinkEvents(id, Tail(onEntries),
                               [acc EXCEPT !.nodes = MapSet(@, id, linked)])

\* Mutant: the states are linked from the last declared to the first
RECURSIVE LinkStatesLastFirst(_, _)
LinkStatesLastFirst(entries, acc) ==
    IF ~acc.ok \/ entries = <<>> THEN acc
    ELSE LET id == entries[Len(entries)].key
             def == entries[Len(entries)].val
         IN LinkStatesLastFirst(SubSeq(entries, 1, Len(entries) - 1),
                                IF def.on = None THEN acc ELSE LinkEvents(id, def.on[1], acc))

\* Second pass, outer loop: the entries of `states`
RECURSIVE LinkStates(_, _)
LinkStates(entries, acc) ==
    IF ~acc.ok \/ entries = <<>> THEN acc
    ELSE LET id == Head(entries).key
             def == Head(entries).val
         IN LinkStates(Tail(entries),
                       IF def.on = None THEN acc ELSE LinkEvents(id, def.on[1], acc))

parseMachine(input) ==
    LET fail(code, details, path) ==
            [ok |-> FALSE, graph |-> EmptyGraph, error |-> ParserError(code, details, path)]
    IN IF ~input.isObject THEN fail("INVALID_SCHEMA", "Input must be an object.", None)
       ELSE IF input.initial = None
       THEN fail("MISSING_INITIAL", "Machine must define an 'initial' state ID.", None)
       ELSE IF input.states = None
       THEN fail("INVALID_SCHEMA", "Machine must define a 'states' object.", None)
       \* first pass: def.type is read of every entry of `states`
       ELSE IF \E i \in DOMAIN input.states[1] : input.states[1][i].val = Null
       THEN [ok |-> FALSE, graph |-> EmptyGraph, error |-> TypeError("type")]
       ELSE LET nodes == CreateNodes(input.states[1], <<>>)
            IN IF ~MapHas(nodes, input.initial[1])
               THEN fail("INVALID_REFERENCE",
                         "Initial state '" \o input.initial[1] \o "' is not defined in 'states'.",
                         Some(<<"initial">>))
               ELSE LET linked == LinkStates(input.states[1],
                                             [ok |-> TRUE, nodes |-> nodes, error |-> NoError])
                    IN IF linked.ok
                       THEN [ok |-> TRUE,
                             graph |-> [initial |-> input.initial[1], nodes |-> linked.nodes],
                             error |-> NoError]
                       ELSE [ok |-> FALSE, graph |-> EmptyGraph, error |-> linked.error]

---------------------------------------------------------------------------
(* The pure transition function *)

Failure(reason) ==
    [success |-> FALSE, reason |-> reason, nextState |-> "", actions |-> <<>>]

\* Mutant: a guarded transition is refused
transitionGuardStrict(g, currentStateId, event) ==
    IF ~MapHas(g.nodes, currentStateId) THEN Failure("NO_TRANSITION")
    ELSE LET node == MapGet(g.nodes, currentStateId)
         IN IF ~MapHas(node.transitions, event) THEN Failure("INVALID_EVENT")
            ELSE LET t == MapGet(node.transitions, event)
                 IN IF t.cond # None THEN Failure("GUARD_PREVENTED")
                    ELSE [success |-> TRUE, reason |-> "", nextState |-> t.target,
                          actions |-> t.actions]

transition(g, currentStateId, event) ==
    IF ~MapHas(g.nodes, currentStateId) THEN Failure("NO_TRANSITION")
    ELSE LET node == MapGet(g.nodes, currentStateId)
         IN IF ~MapHas(node.transitions, event) THEN Failure("INVALID_EVENT")
            \* a guard (cond) is present or not: the branch that tests it is empty
            ELSE LET t == MapGet(node.transitions, event)
                 IN [success |-> TRUE, reason |-> "", nextState |-> t.target,
                     actions |-> t.actions]

---------------------------------------------------------------------------
(* Arrays *)

\* the lowest address no live reference holds
Fresh(used) == CHOOSE a \in Addrs \ used : \A b \in Addrs \ used : a <= b

\* Array.prototype.slice(from, to) for 0 <= from, 0 <= to
Slice(s, from, to) ==
    LET end == IF to < Len(s) THEN to ELSE Len(s)
    IN IF from >= end THEN <<>> ELSE SubSeq(s, from + 1, end)

\* s[i] of a JavaScript array: undefined outside 0..length-1
At(s, i) == IF i + 1 \in DOMAIN s THEN s[i + 1] ELSE "undefined"

Refs(opt) == IF opt = None THEN {} ELSE {opt[1].history, opt[1].log}

\* arrays no reference reaches are gone
Collect(h, roots) == [a \in Addrs |-> IF a \in roots THEN h[a] ELSE <<>>]

---------------------------------------------------------------------------
(* SimulationEngine; `others` are the addresses other holders reference *)

\* { ...this.state }: a new object with the same field values, the arrays shared
getState(st) ==
    [activeStateId |-> st.activeStateId, steps |-> st.steps,
     history |-> st.history, log |-> st.log]

NewState(h, id, entry, others) ==
    LET a1 == Fresh(others)
        a2 == Fresh(others \cup {a1})
    IN [heap |-> [h EXCEPT ![a1] = <<id>>, ![a2] = <<entry>>],
        state |-> [activeStateId |-> id, steps |-> 0, history |-> a1, log |-> a2]]

constructor(h, g, others) ==
    NewState(h, g.initial, "Initialized at " \o g.initial, others)

reset(h, st, g, others) ==
    LET r == NewState(h, g.initial, "Reset to " \o g.initial, others)
    IN [heap |-> r.heap, state |-> r.state, ret |-> getState(r.state)]

\* Mutant: a failed send records the active state in history again
sendRecordsFailure(h, st, g, event) ==
    LET result == transition(g, st.activeStateId, event)
        h2 == IF result.success
              THEN [h EXCEPT ![st.history] = Append(@, result.nextState),
                             ![st.log] = Append(@, "Event '" \o event
                                  \o "' -> Transitioned to '" \o result.nextState \o "'")]
              ELSE [h EXCEPT ![st.history] = Append(@, st.activeStateId),
                             ![st.log] = Append(@, "Event '" \o event
                                  \o "' -> Failed: " \o result.reason)]
        st2 == IF result.success
               THEN [st EXCEPT !.activeStateId = result.nextState, !.steps = @ + 1]
               ELSE st
    IN [heap |-> h2, state |-> st2, ret |-> getState(st2), result |-> result]

send(h, st, g, event) ==
    LET result == transition(g, st.activeStateId, event)
        h2 == IF result.success
              THEN [h EXCEPT ![st.history] = Append(@, result.nextState),
                             ![st.log] = Append(@, "Event '" \o event
                                  \o "' -> Transitioned to '" \o result.nextState \o "'")]
              ELSE [h EXCEPT ![st.log] = Append(@, "Event '" \o event
                                  \o "' -> Failed: " \o result.reason)]
        st2 == IF result.success
               THEN [st EXCEPT !.activeStateId = result.nextState, !.steps = @ + 1]
               ELSE st
    IN [heap |-> h2, state |-> st2, ret |-> getState(st2), result |-> result]

\* Mutant: a final state offers no events
getAvailableEventsFinalEmpty(st, g) ==
    IF MapHas(g.nodes, st.activeStateId) /\ MapGet(g.nodes, st.activeStateId).type # "final"
    THEN MapKeys(MapGet(g.nodes, st.activeStateId).transitions)
    ELSE <<>>

getAvailableEvents(st, g) ==
    IF MapHas(g.nodes, st.activeStateId)
    THEN MapKeys(MapGet(g.nodes, st.activeStateId).transitions)
    ELSE <<>>

\* Mutant: the log is not truncated
timeTravelKeepsLog(h, st, stepIndex, others) ==
    IF stepIndex < 0 \/ stepIndex >= Len(h[st.history])
    THEN [heap |-> h, state |-> st, ret |-> getState(st)]
    ELSE LET targetStateId == At(h[st.history], stepIndex)
             a1 == Fresh(others)
             a2 == Fresh(others \cup {a1})
             st2 == [activeStateId |-> targetStateId, steps |-> stepIndex,
                     history |-> a1, log |-> a2]
             h2 == [h EXCEPT ![a1] = Slice(h[st.history], 0, stepIndex + 1),
                             ![a2] = Append(h[st.log],
                                            "Time traveled to step " \o ToString(stepIndex))]
         IN [heap |-> h2, state |-> st2, ret |-> getState(st2)]

\* Mutant: the upper bound check is > instead of >=
timeTravelInclusiveBound(h, st, stepIndex, others) ==
    IF stepIndex < 0 \/ stepIndex > Len(h[st.history])
    THEN [heap |-> h, state |-> st, ret |-> getState(st)]
    ELSE LET targetStateId == At(h[st.history], stepIndex)
             a1 == Fresh(others)
             a2 == Fresh(others \cup {a1})
             st2 == [activeStateId |-> targetStateId, steps |-> stepIndex,
                     history |-> a1, log |-> a2]
             h2 == [h EXCEPT ![a1] = Slice(h[st.history], 0, stepIndex + 1),
                             ![a2] = Append(Slice(h[st.log], 0, stepIndex + 1),
                                            "Time traveled to step " \o ToString(stepIndex))]
         IN [heap |-> h2, state |-> st2, ret |-> getState(st2)]

\* Mutant: steps is set one past the index
timeTravelStepsAhead(h, st, stepIndex, others) ==
    IF stepIndex < 0 \/ stepIndex >= Len(h[st.history])
    THEN [heap |-> h, state |-> st, ret |-> getState(st)]
    ELSE LET targetStateId == At(h[st.history], stepIndex)
             a1 == Fresh(others)
             a2 == Fresh(others \cup {a1})
             st2 == [activeStateId |-> targetStateId, steps |-> stepIndex + 1,
                     history |-> a1, log |-> a2]
             h2 == [h EXCEPT ![a1] = Slice(h[st.history], 0, stepIndex + 1),
                             ![a2] = Append(Slice(h[st.log], 0, stepIndex + 1),
                                            "Time traveled to step " \o ToString(stepIndex))]
         IN [heap |-> h2, state |-> st2, ret |-> getState(st2)]

timeTravel(h, st, stepIndex, others) ==
    IF stepIndex < 0 \/ stepIndex >= Len(h[st.history])
    THEN [heap |-> h, state |-> st, ret |-> getState(st)]
    ELSE LET targetStateId == At(h[st.history], stepIndex)
             a1 == Fresh(others)
             a2 == Fresh(others \cup {a1})
             st2 == [activeStateId |-> targetStateId, steps |-> stepIndex,
                     history |-> a1, log |-> a2]
             h2 == [h EXCEPT ![a1] = Slice(h[st.history], 0, stepIndex + 1),
                             ![a2] = Append(Slice(h[st.log], 0, stepIndex + 1),
                                            "Time traveled to step " \o ToString(stepIndex))]
         IN [heap |-> h2, state |-> st2, ret |-> getState(st2)]

\* timeTravel(below + 0.5), a stepIndex between two integers: the guard's comparisons
\* are those of `below`, history[stepIndex] is undefined, slice truncates its end to
\* below + 1, and steps is the number itself, written as the log writes it
timeTravelBetween(h, st, below, others) ==
    IF below < 0 \/ below >= Len(h[st.history])
    THEN [heap |-> h, state |-> st, ret |-> getState(st)]
    ELSE LET stepIndex == ToString(below) \o ".5"
             a1 == Fresh(others)
             a2 == Fresh(others \cup {a1})
             st2 == [activeStateId |-> "undefined", steps |-> stepIndex,
                     history |-> a1, log |-> a2]
             h2 == [h EXCEPT ![a1] = Slice(h[st.history], 0, below + 1),
                             ![a2] = Append(Slice(h[st.log], 0, below + 1),
                                            "Time traveled to step " \o stepIndex)]
         IN [heap |-> h2, state |-> st2, ret |-> getState(st2)]

\* timeTravel(NaN): both comparisons of the guard are false, history[NaN] is undefined,
\* slice(0, NaN) is empty, and steps is NaN
timeTravelNaN(h, st, others) ==
    LET a1 == Fresh(others)
        a2 == Fresh(others \cup {a1})
        st2 == [activeStateId |-> "undefined", steps |-> "NaN", history |-> a1, log |-> a2]
        h2 == [h EXCEPT ![a1] = <<>>, ![a2] = <<"Time traveled to step NaN">>]
    IN [heap |-> h2, state |-> st2, ret |-> getState(st2)]

\* StateMachineAPI.step: `simulator` is None or <<state>>
step(h, simulator, g, event) ==
    IF simulator = None
    THEN [raised |-> TRUE, heap |-> h, state |-> None, ret |-> None, result |-> Failure("")]
    ELSE LET r == send(h, simulator[1], g, event)
         IN [raised |-> FALSE, heap |-> r.heap, state |-> Some(r.state),
             ret |-> Some(r.ret), result |-> r.result]

---------------------------------------------------------------------------
(* The machines the engine is run on *)

StateIds == {"A", "B", "C"}
EventInputs == {"go", "back", "UNKNOWN_EVENT"}

OnOfA ==
    { Some(<<On("go", Obj("B", Some("isValid"), None))>>),
      Some(<<On("go", Str("A"))>>),
      Some(<<On("go", Str("B")), On("back", Str("C"))>>) }

OnOfB ==
    { None,
      Some(<<On("back", Str("A"))>>),
      Some(<<On("go", Obj("C", None, Some(<<"notify">>))), On("back", Str("A"))>>) }

OnOfC == { None, Some(<<On("go", Str("A"))>>) }

\* three states, declared in the order A, B, C; C is final
MachineOf(onA, onB, onC) ==
    Definition(Some("A"),
               Some(<<[key |-> "A", val |-> StateDef(None, onA)],
                      [key |-> "B", val |-> StateDef(None, onB)],
                      [key |-> "C", val |-> StateDef(Some("final"), onC)]>>))

EngineDefinitions ==
    { MachineOf(onA, onB, onC) : onA \in OnOfA, onB \in OnOfB, onC \in OnOfC }

\* the machine of the runs with a caller that holds a returned SimulationState
HeldDefinitions ==
    { MachineOf(Some(<<On("go", Str("B"))>>), Some(<<On("back", Str("A"))>>), None) }

\* the machines of the runs with a holder of the graph that writes to it
SmallDefinitions ==
    { MachineOf(Some(<<On("go", Str("B"))>>), onB, None) : onB \in OnOfB }

---------------------------------------------------------------------------
(* Calls *)

Call(op, event, index, result, raised, kept, ret) ==
    [op |-> op, event |-> event, index |-> index, success |-> result.success,
     reason |-> result.reason, raised |-> raised, kept |-> kept, ret |-> ret]

NoResult == Failure("")

History == heap[sim.history]
Log == heap[sim.log]
ActiveNode == MapGet(graph.nodes, sim.activeStateId)

\* the caller keeps the returned SimulationState, or lets it go
Held(keep, ret) == IF keep THEN Some(ret) ELSE snap

\* no definition is being parsed, no StateMachineAPI exists
NoJob == [phase |-> "none"]
NoApi == [exists |-> FALSE]

InitOn(definitions) ==
    \E d \in definitions :
        LET p == parseMachine(d)
            c == constructor([a \in Addrs |-> <<>>], p.graph, {})
        IN /\ p.ok
           /\ graph = p.graph
           /\ heap = c.heap
           /\ sim = c.state
           /\ snap = None
           /\ ctorInitial = c.state.activeStateId
           /\ last = Call("new", "", 0, NoResult, FALSE, FALSE, getState(c.state))
           /\ job = NoJob
           /\ api = NoApi

Send(event, keep) ==
    LET r == send(heap, sim, graph, event)
    IN /\ Len(r.heap[r.state.log]) <= MaxLog
       /\ r.result.success => r.state.steps <= MaxSteps
       /\ sim' = r.state
       /\ snap' = Held(keep, r.ret)
       /\ heap' = Collect(r.heap, Refs(Some(sim')) \cup Refs(snap'))
       /\ last' = Call("send", event, 0, r.result, FALSE, keep, r.ret)
       /\ UNCHANGED <<graph, ctorInitial, job, api>>

\* the facade's step on a loaded machine
Step(event, keep) ==
    LET r == step(heap, Some(sim), graph, event)
    IN /\ ~r.raised
       /\ Len(r.heap[r.state[1].log]) <= MaxLog
       /\ r.result.success => r.state[1].steps <= MaxSteps
       /\ sim' = r.state[1]
       /\ snap' = Held(keep, r.ret[1])
       /\ heap' = Collect(r.heap, Refs(Some(sim')) \cup Refs(snap'))
       /\ last' = Call("step", event, 0, r.result, r.raised, keep, r.ret[1])
       /\ UNCHANGED <<graph, ctorInitial, job, api>>

Reset(keep) ==
    LET r == reset(heap, sim, graph, Refs(snap))
    IN /\ sim' = r.state
       /\ snap' = Held(keep, r.ret)
       /\ heap' = Collect(r.heap, Refs(Some(sim')) \cup Refs(snap'))
       /\ last' = Call("reset", "", 0, NoResult, FALSE, keep, r.ret)
       /\ UNCHANGED <<graph, ctorInitial, job, api>>

TimeTravel(stepIndex, keep) ==
    LET r == timeTravel(heap, sim, stepIndex, Refs(snap))
    IN /\ Len(r.heap[r.state.log]) <= MaxLog
       /\ sim' = r.state
       /\ snap' = Held(keep, r.ret)
       /\ heap' = Collect(r.heap, Refs(Some(sim')) \cup Refs(snap'))
       /\ last' = Call("timeTravel", "", stepIndex, NoResult, FALSE, keep, r.ret)
       /\ UNCHANGED <<graph, ctorInitial, job, api>>

GetState(keep) ==
    /\ snap' = Held(keep, getState(sim))
    /\ heap' = Collect(heap, Refs(Some(sim)) \cup Refs(snap'))
    /\ last' = Call("getState", "", 0, NoResult, FALSE, keep, getState(sim))
    /\ UNCHANGED <<graph, sim, ctorInitial, job, api>>

\* a holder of the graph object assigns its `initial` field
WriteInitial(id) ==
    /\ id # graph.initial
    /\ graph' = [graph EXCEPT !.initial = id]
    /\ last' = Call("writeInitial", "", 0, NoResult, FALSE, FALSE, getState(sim))
    /\ UNCHANGED <<heap, sim, snap, ctorInitial, job, api>>

Init == InitOn(EngineDefinitions)

InitSmall == InitOn(SmallDefinitions)

InitHeld == InitOn(HeldDefinitions)

Indexes == -1..(MaxSteps + 1)

\* one engine, driven through send, step, reset, timeTravel and getState
Next ==
    \/ \E e \in EventInputs : Send(e, FALSE)
    \/ \E e \in EventInputs : Step(e, FALSE)
    \/ Reset(FALSE)
    \/ \E i \in Indexes : TimeTravel(i, FALSE)
    \/ GetState(FALSE)

Spec == Init /\ [][Next]_vars

\* timeTravel with a stepIndex that is no integer
TimeTravelBetween(below) ==
    LET r == timeTravelBetween(heap, sim, below, Refs(snap))
    IN /\ Len(r.heap[r.state.log]) <= MaxLog
       /\ sim' = r.state
       /\ snap' = snap
       /\ heap' = Collect(r.heap, Refs(Some(sim')) \cup Refs(snap'))
       /\ last' = Call("timeTravel", "", ToString(below) \o ".5", NoResult, FALSE, FALSE, r.ret)
       /\ UNCHANGED <<graph, ctorInitial, job, api>>

TimeTravelNaN ==
    LET r == timeTravelNaN(heap, sim, Refs(snap))
    IN /\ sim' = r.state
       /\ snap' = snap
       /\ heap' = Collect(r.heap, Refs(Some(sim')) \cup Refs(snap'))
       /\ last' = Call("timeTravel", "", "NaN", NoResult, FALSE, FALSE, r.ret)
       /\ UNCHANGED <<graph, ctorInitial, job, api>>

\* the same engine, with timeTravel called on any number
NextAnyNumber ==
    \/ Next
    \/ \E below \in Indexes : TimeTravelBetween(below)
    \/ TimeTravelNaN

SpecAnyNumber == Init /\ [][NextAnyNumber]_vars

\* each fails in one state of the machine of HeldDefinitions and succeeds in the other
HeldEvents == {"go", "back"}

\* the caller keeps one returned SimulationState and holds it from then on
Keeps == IF snap = None THEN BOOLEAN ELSE {FALSE}

\* the engine's own methods, with a caller that may keep what a call returns
NextHeld ==
    \/ \E e \in HeldEvents, keep \in Keeps : Send(e, keep)
    \/ \E keep \in Keeps : Reset(keep)
    \/ \E i \in Indexes, keep \in Keeps : TimeTravel(i, keep)
    \/ \E keep \in Keeps : GetState(keep)

SpecHeld == InitHeld /\ [][NextHeld]_vars

\* the same as Spec, with a holder of the graph that writes its `initial` field
NextGraphWrite ==
    \/ Next
    \/ \E id \in StateIds : WriteInitial(id)

SpecGraphWrite == InitSmall /\ [][NextGraphWrite]_vars

---------------------------------------------------------------------------
(* analyzer: a JavaScript Set is the sequence of its members in insertion order *)

SetAdd(set, x) == IF x \in Range(set) THEN set ELSE Append(set, x)

\* the for loop over node.outgoing inside the while loop
RECURSIVE VisitOutgoing(_, _)
VisitOutgoing(outgoing, acc) ==
    IF outgoing = <<>> THEN acc
    ELSE LET target == Head(outgoing).target
         IN VisitOutgoing(Tail(outgoing),
                IF target \in Range(acc.reachable) THEN acc
                ELSE [reachable |-> SetAdd(acc.reachable, target),
                      queue |-> Append(acc.queue, target)])

\* while (queue.length > 0)
RECURSIVE DrainQueue(_, _)
DrainQueue(g, acc) ==
    IF acc.queue = <<>> THEN acc.reachable
    ELSE LET id == Head(acc.queue)
             rest == [acc EXCEPT !.queue = Tail(@)]
         IN IF ~MapHas(g.nodes, id) THEN DrainQueue(g, rest)
            ELSE DrainQueue(g, VisitOutgoing(MapGet(g.nodes, id).outgoing, rest))

RECURSIVE KeysOutside(_, _)
KeysOutside(keys, reachable) ==
    IF keys = <<>> THEN <<>>
    ELSE IF Head(keys) \in Range(reachable) THEN KeysOutside(Tail(keys), reachable)
    ELSE <<Head(keys)>> \o KeysOutside(Tail(keys), reachable)

\* Mutant: the search stops at the targets of the initial state
analyzeReachabilityOneHop(g) ==
    LET reachable == IF MapHas(g.nodes, g.initial)
                     THEN VisitOutgoing(MapGet(g.nodes, g.initial).outgoing,
                              [reachable |-> <<g.initial>>, queue |-> <<>>]).reachable
                     ELSE <<g.initial>>
    IN [reachable |-> reachable, orphans |-> KeysOutside(MapKeys(g.nodes), reachable)]

analyzeReachability(g) ==
    LET reachable == DrainQueue(g, [reachable |-> <<g.initial>>, queue |-> <<g.initial>>])
    IN [reachable |-> reachable, orphans |-> KeysOutside(MapKeys(g.nodes), reachable)]

\* Mutant: a final state without exits counts as a dead end
RECURSIVE analyzeDeadEndsCountsFinal(_, _)
analyzeDeadEndsCountsFinal(nodes, reachable) ==
    IF nodes = <<>> THEN <<>>
    ELSE LET id == Head(nodes).key
             node == Head(nodes).val
             rest == analyzeDeadEndsCountsFinal(Tail(nodes), reachable)
         IN IF id \notin Range(reachable) THEN rest
            ELSE IF Len(node.outgoing) = 0 THEN <<id>> \o rest
            ELSE rest

\* `nodes` is graph.nodes
RECURSIVE analyzeDeadEnds(_, _)
analyzeDeadEnds(nodes, reachable) ==
    IF nodes = <<>> THEN <<>>
    ELSE LET id == Head(nodes).key
             node == Head(nodes).val
             rest == analyzeDeadEnds(Tail(nodes), reachable)
         IN IF id \notin Range(reachable) THEN rest
            ELSE IF node.type # "final" /\ Len(node.outgoing) = 0 THEN <<id>> \o rest
            ELSE rest

\* path.indexOf(id) + 1, for an id the path holds
IndexOf(path, id) == CHOOSE i \in DOMAIN path : path[i] = id /\ \A j \in 1..(i - 1) : path[j] # id

\* dfs(currentId, path) and its for loop; st holds visited, recursionStack, path, cycles
RECURSIVE dfs(_, _, _)
RECURSIVE dfsOutgoing(_, _, _)

dfs(g, currentId, st) ==
    LET entered == [st EXCEPT !.visited = @ \cup {currentId},
                              !.recursionStack = @ \cup {currentId},
                              !.path = Append(@, currentId)]
        after == IF MapHas(g.nodes, currentId)
                 THEN dfsOutgoing(g, MapGet(g.nodes, currentId).outgoing, entered)
                 ELSE entered
    IN [after EXCEPT !.recursionStack = @ \ {currentId},
                     !.path = SubSeq(@, 1, Len(@) - 1)]

\* Mutant: an edge from a state to itself is not a cycle
RECURSIVE dfsOutgoingSkipsSelfLoops(_, _, _)
dfsOutgoingSkipsSelfLoops(g, outgoing, st) ==
    IF outgoing = <<>> THEN st
    ELSE LET target == Head(outgoing).target
             next == IF target \notin st.visited THEN dfs(g, target, st)
                     ELSE IF target \in st.recursionStack /\ target # Head(outgoing).source
                     THEN [st EXCEPT !.cycles =
                              Append(@, SubSeq(st.path, IndexOf(st.path, target),
                                               Len(st.path)))]
                     ELSE st
         IN dfsOutgoingSkipsSelfLoops(g, Tail(outgoing), next)

\* Mutant: the recorded cycle starts after the state the edge leads back to
RECURSIVE dfsOutgoingSliceAfter(_, _, _)
dfsOutgoingSliceAfter(g, outgoing, st) ==
    IF outgoing = <<>> THEN st
    ELSE LET target == Head(outgoing).target
             next == IF target \notin st.visited THEN dfs(g, target, st)
                     ELSE IF target \in st.recursionStack
                     THEN [st EXCEPT !.cycles =
                              Append(@, SubSeq(st.path, IndexOf(st.path, target) + 1,
                                               Len(st.path)))]
                     ELSE st
         IN dfsOutgoingSliceAfter(g, Tail(outgoing), next)

\* Mutant: a cycle is recorded once, however many edges close it
RECURSIVE dfsOutgoingDeduplicates(_, _, _)
dfsOutgoingDeduplicates(g, outgoing, st) ==
    IF outgoing = <<>> THEN st
    ELSE LET target == Head(outgoing).target
             cyclePath == SubSeq(st.path, IndexOf(st.path, target), Len(st.path))
             next == IF target \notin st.visited THEN dfs(g, target, st)
                     ELSE IF target \in st.recursionStack /\ cyclePath \notin Range(st.cycles)
                     THEN [st EXCEPT !.cycles = Append(@, cyclePath)]
                     ELSE st
         IN dfsOutgoingDeduplicates(g, Tail(outgoing), next)

dfsOutgoing(g, outgoing, st) ==
    IF outgoing = <<>> THEN st
    ELSE LET target == Head(outgoing).target
             next == IF target \notin st.visited THEN dfs(g, target, st)
                     ELSE IF target \in st.recursionStack
                     THEN [st EXCEPT !.cycles =
                              Append(@, SubSeq(st.path, IndexOf(st.path, target), Len(st.path)))]
                     ELSE st
         IN dfsOutgoing(g, Tail(outgoing), next)

\* Mutant: the search is started from every node, not from initial alone
analyzeCyclesFromEveryNode(g) ==
    LET RECURSIVE FromEach(_, _)
        FromEach(entries, st) ==
            IF entries = <<>> THEN st
            ELSE FromEach(Tail(entries),
                          IF Head(entries).key \in st.visited THEN st
                          ELSE dfs(g, Head(entries).key, st))
    IN FromEach(g.nodes, [visited |-> {}, recursionStack |-> {},
                          path |-> <<>>, cycles |-> <<>>]).cycles

analyzeCycles(g) ==
    IF MapHas(g.nodes, g.initial)
    THEN dfs(g, g.initial, [visited |-> {}, recursionStack |-> {},
                            path |-> <<>>, cycles |-> <<>>]).cycles
    ELSE <<>>

analyzeNondeterminism(g) == <<>>

analyzeGraph(g) ==
    LET r == analyzeReachability(g)
    IN [reachable |-> r.reachable,
        orphans |-> r.orphans,
        deadEnds |-> analyzeDeadEnds(g.nodes, r.reachable),
        cycles |-> analyzeCycles(g),
        nondeterministic |-> analyzeNondeterminism(g)]

---------------------------------------------------------------------------
(* diagnostics *)

\* Mutant: every issue is a warning
IssueAlwaysWarning(code, severity, message, relatedIds, path) ==
    [code |-> code, severity |-> "warning", message |-> message,
     relatedIds |-> relatedIds, path |-> path]

Issue(code, severity, message, relatedIds, path) ==
    [code |-> code, severity |-> severity, message |-> message,
     relatedIds |-> relatedIds, path |-> path]

Metrics(totalStates, totalTransitions, cyclomaticComplexity) ==
    [totalStates |-> totalStates, totalTransitions |-> totalTransitions,
     cyclomaticComplexity |-> cyclomaticComplexity]

\* Array.prototype.join
RECURSIVE Join(_, _)
Join(strings, separator) ==
    IF strings = <<>> THEN ""
    ELSE IF Len(strings) = 1 THEN strings[1]
    ELSE strings[1] \o separator \o Join(Tail(strings), separator)

toUpperCase(status) ==
    IF status = "error" THEN "ERROR" ELSE IF status = "warning" THEN "WARNING" ELSE "VALID"

RECURSIVE transitionCount(_)
transitionCount(nodes) ==
    IF nodes = <<>> THEN 0 ELSE Len(Head(nodes).val.outgoing) + transitionCount(Tail(nodes))

\* Mutant: any issue, whatever its severity, makes the status warning
generateReportWarnsOnAnyIssue(g, analysis) ==
    LET issues ==
            [i \in DOMAIN analysis.orphans |->
                Issue("UNREACHABLE_STATE", "warning",
                      "State '" \o analysis.orphans[i] \o "' is not reachable from the initial state.",
                      Some(<<analysis.orphans[i]>>), Some(<<"states", analysis.orphans[i]>>))]
            \o [i \in DOMAIN analysis.deadEnds |->
                Issue("DEAD_END", "warning",
                      "State '" \o analysis.deadEnds[i] \o "' is a dead end (not final, no transitions).",
                      Some(<<analysis.deadEnds[i]>>), Some(<<"states", analysis.deadEnds[i]>>))]
            \o [i \in DOMAIN analysis.cycles |->
                Issue("CYCLE_DETECTED", "info",
                      "Cycle detected: " \o Join(analysis.cycles[i], " -> "),
                      Some(analysis.cycles[i]), None)]
        status == IF issues # <<>> THEN "warning" ELSE "valid"
    IN [status |-> status,
        issues |-> issues,
        summary |-> "Analysis Complete: " \o toUpperCase(status),
        metrics |-> Metrics(Len(g.nodes), transitionCount(g.nodes), Len(analysis.cycles))]

generateReport(g, analysis) ==
    LET unreachable == [i \in DOMAIN analysis.orphans |->
            Issue("UNREACHABLE_STATE", "warning",
                  "State '" \o analysis.orphans[i] \o "' is not reachable from the initial state.",
                  Some(<<analysis.orphans[i]>>), Some(<<"states", analysis.orphans[i]>>))]
        deadEnds == [i \in DOMAIN analysis.deadEnds |->
            Issue("DEAD_END", "warning",
                  "State '" \o analysis.deadEnds[i] \o "' is a dead end (not final, no transitions).",
                  Some(<<analysis.deadEnds[i]>>), Some(<<"states", analysis.deadEnds[i]>>))]
        cycles == [i \in DOMAIN analysis.cycles |->
            Issue("CYCLE_DETECTED", "info",
                  "Cycle detected: " \o Join(analysis.cycles[i], " -> "),
                  Some(analysis.cycles[i]), None)]
        issues == unreachable \o deadEnds \o cycles
        hasError == \E i \in DOMAIN issues : issues[i].severity = "error"
        hasWarning == \E i \in DOMAIN issues : issues[i].severity = "warning"
        status == IF hasError THEN "error" ELSE IF hasWarning THEN "warning" ELSE "valid"
        summaryLines ==
            <<"Analysis Complete: " \o toUpperCase(status),
              "Found " \o ToString(Len(issues)) \o " issues.">>
            \o (IF Len(analysis.orphans) > 0
                THEN <<"- " \o ToString(Len(analysis.orphans)) \o " unreachable states.">>
                ELSE <<>>)
            \o (IF Len(analysis.deadEnds) > 0
                THEN <<"- " \o ToString(Len(analysis.deadEnds)) \o " dead-end states.">>
                ELSE <<>>)
            \o (IF Len(analysis.cycles) > 0
                THEN <<"- " \o ToString(Len(analysis.cycles)) \o " cycles detected.">>
                ELSE <<>>)
    IN [status |-> status,
        issues |-> issues,
        summary |-> Join(summaryLines, "\n"),
        metrics |-> Metrics(Len(g.nodes), transitionCount(g.nodes), Len(analysis.cycles))]

formatParserError(error) ==
    [status |-> "error",
     issues |-> <<Issue(error.code, "error", error.details, None, error.path)>>,
     summary |-> "Fatal Error: " \o error.details,
     metrics |-> Metrics(0, 0, 0)]

---------------------------------------------------------------------------
(* The definitions parseMachine and analyzeGraph are applied to *)

ParseIds == {"A", "B", "C"}

\* the keys of `states` in declaration order, at most n of them
Declarations(n) ==
    UNION {{o \in [1..k -> ParseIds] : \A i, j \in 1..k : o[i] = o[j] => i = j} : k \in 0..n}

\* `on` of one state: missing, one bare-string target, or a bare-string and an object target
OnChoices ==
    {None}
    \cup {Some(<<On("go", Str(t))>>) : t \in ParseIds}
    \cup {Some(<<On("go", Str("B")), On("back", Obj("C", Some("isValid"), None))>>),
          Some(<<On("go", Str("C")), On("back", Obj("A", None, Some(<<"notify">>)))>>)}

StateChoices ==
    {StateDef(None, on) : on \in OnChoices}
    \cup {StateDef(Some("final"), None), StateDef(Some("final"), Some(<<On("go", Str("A"))>>))}

\* `states` with the keys o
StatesOf(o) ==
    {Some([k \in DOMAIN o |-> [key |-> o[k], val |-> c[k]]]) : c \in [DOMAIN o -> StateChoices]}

\* null, a number, a string
NotAnObject == [isObject |-> FALSE, initial |-> None, states |-> None]

\* initial is "A", missing, or not a string; states is missing or not an object, or an object
ParserInputs ==
    {NotAnObject, Definition(None, None), Definition(Some("A"), None)}
    \cup UNION {{Definition(None, s) : s \in StatesOf(o)} : o \in Declarations(1)}
    \cup UNION {{Definition(Some("A"), s) : s \in StatesOf(o)} :
                o \in Declarations(Cardinality(ParseIds))}

NotParsed == [ok |-> FALSE, graph |-> EmptyGraph, error |-> NoError]

NoReport == [status |-> "", issues |-> <<>>, summary |-> "", metrics |-> [none |-> TRUE]]

NoAnalysis ==
    [reachable |-> <<>>, orphans |-> <<>>, deadEnds |-> <<>>, cycles |-> <<>>,
     nondeterministic |-> <<>>]

\* no SimulationEngine is constructed
NoEngine ==
    /\ graph = EmptyGraph
    /\ heap = [a \in Addrs |-> <<>>]
    /\ sim = None
    /\ snap = None
    /\ ctorInitial = ""
    /\ last = Call("none", "", 0, NoResult, FALSE, FALSE, None)

InitParse ==
    /\ NoEngine
    /\ api = NoApi
    /\ \E d \in ParserInputs :
           job = [phase |-> "input", input |-> d, parsed |-> NotParsed, analysis |-> NoAnalysis,
                  report |-> NoReport]

\* graph = parseMachine(definition), or the ParserError it throws
ParseMachine ==
    /\ job.phase = "input"
    /\ job' = [job EXCEPT !.phase = "parsed", !.parsed = parseMachine(job.input)]
    /\ UNCHANGED <<graph, heap, sim, snap, last, ctorInitial, api>>

\* analysis = analyzeGraph(graph)
AnalyzeGraph ==
    /\ job.phase = "parsed"
    /\ job.parsed.ok
    /\ job' = [job EXCEPT !.phase = "analyzed", !.analysis = analyzeGraph(job.parsed.graph)]
    /\ UNCHANGED <<graph, heap, sim, snap, last, ctorInitial, api>>

\* report = generateReport(graph, analysis)
GenerateReport ==
    /\ job.phase = "analyzed"
    /\ job' = [job EXCEPT !.phase = "reported",
                          !.report = generateReport(job.parsed.graph, job.analysis)]
    /\ UNCHANGED <<graph, heap, sim, snap, last, ctorInitial, api>>

NextParse ==
    \/ ParseMachine
    \/ AnalyzeGraph
    \/ GenerateReport

SpecParse == InitParse /\ [][NextParse]_vars

\* machines of three states in which a state has up to two events, to any two targets,
\* the same one included
BackEdgeOnChoices ==
    {None}
    \cup {Some(<<On("go", Str(t))>>) : t \in ParseIds}
    \cup {Some(<<On("go", Str(t)), On("back", Str(u))>>) : t, u \in ParseIds}

BackEdgeInputs ==
    {Definition(Some("A"), Some(<<[key |-> "A", val |-> StateDef(None, a)],
                                  [key |-> "B", val |-> StateDef(None, b)],
                                  [key |-> "C", val |-> StateDef(None, c)]>>)) :
        a, b, c \in BackEdgeOnChoices}

InitBackEdges ==
    /\ NoEngine
    /\ api = NoApi
    /\ \E d \in BackEdgeInputs :
           job = [phase |-> "input", input |-> d, parsed |-> NotParsed, analysis |-> NoAnalysis,
                  report |-> NoReport]

\* parseMachine, analyzeGraph and generateReport on machines with parallel transitions
SpecBackEdges == InitBackEdges /\ [][NextParse]_vars

---------------------------------------------------------------------------
(* The editor's own analysis, on the definition as it was typed *)

\* Object.values(state.on).forEach: `target` is the value of the entry, a string or a
\* TransitionConfig object; an object is no member of reachable and no key of states
RECURSIVE EditorVisit(_, _, _)
EditorVisit(states, onEntries, acc) ==
    IF onEntries = <<>> THEN acc
    ELSE LET target == Head(onEntries).val
         IN EditorVisit(states, Tail(onEntries),
                IF target.isString /\ target.target \notin Range(acc.reachable)
                                   /\ MapHas(states, target.target)
                THEN [reachable |-> SetAdd(acc.reachable, target.target),
                      queue |-> Append(acc.queue, target.target)]
                ELSE acc)

\* while (queue.length > 0)
RECURSIVE EditorDrain(_, _)
EditorDrain(states, acc) ==
    IF acc.queue = <<>> THEN acc.reachable
    ELSE LET currentId == Head(acc.queue)
             rest == [acc EXCEPT !.queue = Tail(@)]
         IN IF MapHas(states, currentId) /\ MapGet(states, currentId).on # None
            THEN EditorDrain(states, EditorVisit(states, MapGet(states, currentId).on[1], rest))
            ELSE EditorDrain(states, rest)

\* Object.entries(machine.states).forEach: reachable, not final, `on` missing or empty
RECURSIVE EditorDeadEnds(_, _)
EditorDeadEnds(entries, reachable) ==
    IF entries = <<>> THEN <<>>
    ELSE LET id == Head(entries).key
             state == Head(entries).val
             rest == EditorDeadEnds(Tail(entries), reachable)
         IN IF id \in Range(reachable) /\ state.type # Some("final")
                                       /\ (state.on = None \/ state.on[1] = <<>>)
            THEN <<id>> \o rest
            ELSE rest

\* `machine` is a definition with an initial and states
getReachability(machine) ==
    IF ~machine.isObject \/ machine.states = None
    THEN [reachable |-> <<>>, deadEnds |-> <<>>]
    ELSE LET states == machine.states[1]
             reachable == EditorDrain(states, [reachable |-> <<machine.initial[1]>>,
                                               queue |-> <<machine.initial[1]>>])
         IN [reachable |-> reachable, deadEnds |-> EditorDeadEnds(states, reachable)]

NoEditor == [reachable |-> <<>>, deadEnds |-> <<>>]

InitEditor ==
    /\ NoEngine
    /\ api = NoApi
    /\ \E d \in ParserInputs :
           job = [phase |-> "input", input |-> d, parsed |-> NotParsed, analysis |-> NoAnalysis,
                  report |-> NoReport, editor |-> NoEditor]

\* the editor's diagnostics of a definition the engine has parsed and analyzed
GetReachability ==
    /\ job.phase = "analyzed"
    /\ job' = [job EXCEPT !.phase = "edited", !.editor = getReachability(job.input)]
    /\ UNCHANGED <<graph, heap, sim, snap, last, ctorInitial, api>>

NextEditor ==
    \/ ParseMachine
    \/ AnalyzeGraph
    \/ GetReachability

SpecEditor == InitEditor /\ [][NextEditor]_vars

---------------------------------------------------------------------------
(* StateMachineAPI: `a` holds its four fields, null is None; a simulator is the graph *)
(* its engine references and the engine's state                                      *)

NewApi == [graph |-> None, simulator |-> None, lastAnalysis |-> None, lastParserError |-> None]

UsageError ==
    [code |-> "Error", details |-> "Machine not loaded. Call loadMachine first.", path |-> None]

ApiRefs(a) == IF a.simulator = None THEN {} ELSE Refs(Some(a.simulator[1].state))

\* Mutant: a failed load leaves the simulator in place
loadMachineKeepsSimulator(h, a, definition) ==
    LET p == parseMachine(definition)
        c == constructor(h, p.graph, {})
    IN IF p.ok
       THEN [raised |-> FALSE, thrown |-> None, heap |-> c.heap,
             api |-> [graph |-> Some(p.graph),
                      simulator |-> Some([graph |-> p.graph, state |-> c.state]),
                      lastAnalysis |-> Some(analyzeGraph(p.graph)),
                      lastParserError |-> None]]
       ELSE [raised |-> TRUE, thrown |-> Some(p.error), heap |-> h,
             api |-> [graph |-> None, simulator |-> a.simulator, lastAnalysis |-> None,
                      lastParserError |-> Some(p.error)]]

\* Mutant: a successful load leaves the captured parser error in place
loadMachineKeepsParserError(h, a, definition) ==
    LET p == parseMachine(definition)
        c == constructor(h, p.graph, {})
    IN IF p.ok
       THEN [raised |-> FALSE, thrown |-> None, heap |-> c.heap,
             api |-> [graph |-> Some(p.graph),
                      simulator |-> Some([graph |-> p.graph, state |-> c.state]),
                      lastAnalysis |-> Some(analyzeGraph(p.graph)),
                      lastParserError |-> a.lastParserError]]
       ELSE [raised |-> TRUE, thrown |-> Some(p.error), heap |-> h,
             api |-> [graph |-> None, simulator |-> None, lastAnalysis |-> None,
                      lastParserError |-> Some(p.error)]]

\* try: the four assignments; catch: the three fields cleared, the error kept and rethrown
loadMachine(h, a, definition) ==
    LET p == parseMachine(definition)
        c == constructor(h, p.graph, {})
    IN IF p.ok
       THEN [raised |-> FALSE, thrown |-> None, heap |-> c.heap,
             api |-> [graph |-> Some(p.graph),
                      simulator |-> Some([graph |-> p.graph, state |-> c.state]),
                      lastAnalysis |-> Some(analyzeGraph(p.graph)),
                      lastParserError |-> None]]
       ELSE [raised |-> TRUE, thrown |-> Some(p.error), heap |-> h,
             api |-> [graph |-> None, simulator |-> None, lastAnalysis |-> None,
                      lastParserError |->
                          IF IsParserError(p.error) THEN Some(p.error)
                          ELSE Some(ParserError("INVALID_SCHEMA", p.error.details, None))]]

\* Mutant: without a graph the empty result is stored as the last analysis
analyzeMachineStoresEmpty(a) ==
    IF a.graph = None
    THEN [api |-> [a EXCEPT !.lastAnalysis = Some(NoAnalysis)], ret |-> NoAnalysis]
    ELSE LET analysis == analyzeGraph(a.graph[1])
         IN [api |-> [a EXCEPT !.lastAnalysis = Some(analysis)], ret |-> analysis]

\* without a graph: a new empty result, nothing stored; with one: the result is stored
\* in lastAnalysis and that same object is returned
analyzeMachine(a) ==
    IF a.graph = None
    THEN [api |-> a, ret |-> NoAnalysis]
    ELSE LET analysis == analyzeGraph(a.graph[1])
         IN [api |-> [a EXCEPT !.lastAnalysis = Some(analysis)], ret |-> analysis]

\* Mutant: step on an unloaded facade returns nothing instead of throwing
StateMachineAPI_stepSilent(h, a, event) ==
    IF a.simulator = None
    THEN [raised |-> FALSE, thrown |-> None, heap |-> h, api |-> a, ret |-> None]
    ELSE LET r == step(h, Some(a.simulator[1].state), a.simulator[1].graph, event)
         IN [raised |-> FALSE, thrown |-> None, heap |-> r.heap,
             api |-> [a EXCEPT !.simulator = Some([a.simulator[1] EXCEPT !.state = r.state[1]])],
             ret |-> r.ret]

\* step, on the fields of the facade
StateMachineAPI_step(h, a, event) ==
    LET r == step(h, IF a.simulator = None THEN None ELSE Some(a.simulator[1].state),
                  IF a.simulator = None THEN EmptyGraph ELSE a.simulator[1].graph, event)
    IN IF r.raised
       THEN [raised |-> TRUE, thrown |-> Some(UsageError), heap |-> h, api |-> a, ret |-> None]
       ELSE [raised |-> FALSE, thrown |-> None, heap |-> r.heap,
             api |-> [a EXCEPT !.simulator = Some([a.simulator[1] EXCEPT !.state = r.state[1]])],
             ret |-> r.ret]

StateMachineAPI_reset(h, a) ==
    IF a.simulator = None
    THEN [raised |-> TRUE, thrown |-> Some(UsageError), heap |-> h, api |-> a, ret |-> None]
    ELSE LET r == reset(h, a.simulator[1].state, a.simulator[1].graph, {})
         IN [raised |-> FALSE, thrown |-> None, heap |-> r.heap,
             api |-> [a EXCEPT !.simulator = Some([a.simulator[1] EXCEPT !.state = r.state])],
             ret |-> Some(r.ret)]

getDiagnostics(a) ==
    IF a.lastParserError # None THEN formatParserError(a.lastParserError[1])
    ELSE IF a.graph = None \/ a.lastAnalysis = None
    THEN [status |-> "error", issues |-> <<>>, summary |-> "No machine loaded",
          metrics |-> Metrics(0, 0, 0)]
    ELSE generateReport(a.graph[1], a.lastAnalysis[1])

getGraph(a) == a.graph

\* this.simulator?.getState()
getSimulationState(a) ==
    IF a.simulator = None THEN None ELSE Some(getState(a.simulator[1].state))

\* this.simulator?.getAvailableEvents() || []
StateMachineAPI_getAvailableEvents(a) ==
    IF a.simulator = None THEN <<>>
    ELSE getAvailableEvents(a.simulator[1].state, a.simulator[1].graph)

---------------------------------------------------------------------------
(* The facade in use *)

\* two machines, and three definitions parseMachine rejects
FacadeDefinitions ==
    { Definition(Some("A"), Some(<<
          [key |-> "A", val |-> StateDef(None, Some(<<On("go", Str("B"))>>))],
          [key |-> "B", val |-> StateDef(None, Some(<<On("back", Str("A"))>>))]>>)),
      Definition(Some("B"), Some(<<
          [key |-> "A", val |-> StateDef(None, None)],
          [key |-> "B", val |-> StateDef(None, Some(<<On("go", Str("C"))>>))],
          [key |-> "C", val |-> StateDef(None, None)]>>)),
      NotAnObject,
      Definition(Some("Z"), Some(<<[key |-> "A", val |-> StateDef(None, None)]>>)),
      Definition(Some("A"), Some(<<
          [key |-> "A", val |-> StateDef(None, Some(<<On("go", Str("B"))>>))]>>)) }

FacadeEvents == {"go", "back", "UNKNOWN_EVENT"}

\* a call of a facade method: what it threw or returned, and the last loadMachine call
FacadeCall(op, event, r, load) ==
    [op |-> op, event |-> event, raised |-> r.raised, thrown |-> r.thrown, ret |-> r.ret,
     load |-> load]

\* what the facade held when loadMachine was called
Before(a) ==
    [loaded |-> a.graph # None, failed |-> a.lastParserError # None,
     steps |-> IF a.simulator = None THEN 0 ELSE a.simulator[1].state.steps]

Returned(ret) == [raised |-> FALSE, thrown |-> None, ret |-> ret]

EngineIdle == graph = EmptyGraph /\ sim = None /\ snap = None /\ ctorInitial = ""

\* new StateMachineAPI()
InitFacade ==
    /\ EngineIdle
    /\ heap = [a \in Addrs |-> <<>>]
    /\ job = NoJob
    /\ api = NewApi
    /\ last = FacadeCall("new", "", Returned(None), None)

LoadMachine(definition) ==
    LET r == loadMachine(heap, api, definition)
    IN /\ api' = r.api
       /\ heap' = Collect(r.heap, ApiRefs(r.api))
       /\ last' = FacadeCall("loadMachine", "",
                             [raised |-> r.raised, thrown |-> r.thrown, ret |-> None],
                             Some([definition |-> definition, raised |-> r.raised,
                                   thrown |-> r.thrown, before |-> Before(api)]))
       /\ UNCHANGED <<graph, sim, snap, ctorInitial, job>>

AnalyzeMachine ==
    LET r == analyzeMachine(api)
    IN /\ api' = r.api
       /\ last' = FacadeCall("analyzeMachine", "", Returned(Some(r.ret)), last.load)
       /\ UNCHANGED <<graph, heap, sim, snap, ctorInitial, job>>

FacadeStep(event) ==
    LET r == StateMachineAPI_step(heap, api, event)
    IN /\ r.api.simulator # None => /\ Len(r.heap[r.api.simulator[1].state.log]) <= MaxLog
                                    /\ r.api.simulator[1].state.steps <= MaxSteps
       /\ api' = r.api
       /\ heap' = Collect(r.heap, ApiRefs(r.api))
       /\ last' = FacadeCall("step", event, r, last.load)
       /\ UNCHANGED <<graph, sim, snap, ctorInitial, job>>

FacadeReset ==
    LET r == StateMachineAPI_reset(heap, api)
    IN /\ api' = r.api
       /\ heap' = Collect(r.heap, ApiRefs(r.api))
       /\ last' = FacadeCall("reset", "", r, last.load)
       /\ UNCHANGED <<graph, sim, snap, ctorInitial, job>>

GetDiagnostics ==
    /\ last' = FacadeCall("getDiagnostics", "", Returned(Some(getDiagnostics(api))), last.load)
    /\ UNCHANGED <<graph, heap, sim, snap, ctorInitial, job, api>>

NextFacade ==
    \/ \E d \in FacadeDefinitions : LoadMachine(d)
    \/ AnalyzeMachine
    \/ \E e \in FacadeEvents : FacadeStep(e)
    \/ FacadeReset
    \/ GetDiagnostics

SpecFacade == InitFacade /\ [][NextFacade]_vars

\* definitions in which a state, or the target of an event, is null
MalformedDefinitions ==
    { Definition(Some("A"), Some(<<
          [key |-> "A", val |-> StateDef(None, Some(<<On("go", Str("B"))>>))],
          [key |-> "B", val |-> Null]>>)),
      Definition(Some("A"), Some(<<
          [key |-> "A", val |-> StateDef(None, Some(<<On("go", Str("B")), On("back", Null)>>))],
          [key |-> "B", val |-> StateDef(None, None)]>>)) }

\* the facade, loaded with any value
NextFacadeAnyInput ==
    \/ NextFacade
    \/ \E d \in MalformedDefinitions : LoadMachine(d)

SpecFacadeAnyInput == InitFacade /\ [][NextFacadeAnyInput]_vars

---------------------------------------------------------------------------
(* io: graphToJSON *)

\* Mutant: a transition with actions and no guard is written as a bare string
RECURSIVE onOfTransitionsGuardOnly(_)
onOfTransitionsGuardOnly(transitions) ==
    IF transitions = <<>> THEN <<>>
    ELSE LET event == Head(transitions).key
             t == Head(transitions).val
             truthyCond == t.cond # None /\ t.cond[1] # ""
         IN <<On(event, IF truthyCond
                        THEN Obj(t.target, t.cond, Some(t.actions))
                        ELSE Str(t.target))>>
            \o onOfTransitionsGuardOnly(Tail(transitions))

\* the entries of stateDef.on, in the order of node.transitions
RECURSIVE onOfTransitions(_)
onOfTransitions(transitions) ==
    IF transitions = <<>> THEN <<>>
    ELSE LET event == Head(transitions).key
             t == Head(transitions).val
             truthyCond == t.cond # None /\ t.cond[1] # ""
         IN <<On(event, IF truthyCond \/ Len(t.actions) > 0
                        THEN Obj(t.target, t.cond, Some(t.actions))
                        ELSE Str(t.target))>>
            \o onOfTransitions(Tail(transitions))

\* Mutant: only a node with transitions is written to `states`
RECURSIVE statesOfNodesWithExits(_)
statesOfNodesWithExits(nodes) ==
    IF nodes = <<>> THEN <<>>
    ELSE LET node == Head(nodes).val
         IN (IF Len(node.transitions) > 0
             THEN <<[key |-> Head(nodes).key,
                     val |-> StateDef(Some(node.type), Some(onOfTransitions(node.transitions)))]>>
             ELSE <<>>)
            \o statesOfNodesWithExits(Tail(nodes))

\* the entries of `states`, in the order of graph.nodes
RECURSIVE statesOfNodes(_)
statesOfNodes(nodes) ==
    IF nodes = <<>> THEN <<>>
    ELSE LET node == Head(nodes).val
         IN <<[key |-> Head(nodes).key,
               val |-> StateDef(Some(node.type),
                                IF Len(node.transitions) > 0
                                THEN Some(onOfTransitions(node.transitions))
                                ELSE None)]>>
            \o statesOfNodes(Tail(nodes))

graphToJSON(g) == Definition(Some(g.initial), Some(statesOfNodes(g.nodes)))

---------------------------------------------------------------------------
(* Serializing a graph, parsing what was written, serializing again *)

\* guards and actions present, absent and empty; `on` absent and empty; every type
SerializerOnOfA ==
    {Some(<<On("go", d)>>) :
        d \in {Str("B"), Obj("B", None, None), Obj("B", Some("isValid"), None),
               Obj("B", Some(""), Some(<<>>)), Obj("B", None, Some(<<"notify">>)),
               Obj("C", Some("isValid"), Some(<<"notify", "log">>))}}
    \cup {Some(<<On("go", Obj("C", None, Some(<<"notify">>))), On("back", Str("A"))>>)}

SerializerOnOfB ==
    {None, Some(<<>>), Some(<<On("back", Str("A"))>>),
     Some(<<On("back", Obj("A", Some("isValid"), None)), On("go", Str("C"))>>)}

SerializerTypes == {None, Some("default"), Some("final"), Some("initial")}

SerializerInputs ==
    {Definition(Some(i), Some(<<[key |-> "C", val |-> StateDef(typeC, None)],
                                [key |-> "A", val |-> StateDef(None, onA)],
                                [key |-> "B", val |-> StateDef(typeB, onB)]>>)) :
        i \in {"A", "B"}, onA \in SerializerOnOfA, onB \in SerializerOnOfB,
        typeB \in SerializerTypes, typeC \in {None, Some("final")}}

InitSerialize ==
    /\ NoEngine
    /\ api = NoApi
    /\ \E d \in SerializerInputs :
           job = [phase |-> "input", input |-> d, parsed |-> NotParsed,
                  json |-> None, origin |-> None, source |-> None]

\* json = graphToJSON(graph)
GraphToJSON ==
    /\ job.phase = "parsed"
    /\ job.parsed.ok
    /\ job' = [job EXCEPT !.phase = "serialized", !.json = Some(graphToJSON(job.parsed.graph))]
    /\ UNCHANGED <<graph, heap, sim, snap, last, ctorInitial, api>>

\* what graphToJSON wrote is handed to parseMachine; origin is what was written and
\* source the graph it was written from
Reparse ==
    /\ job.phase = "serialized"
    /\ job.origin = None
    /\ job' = [phase |-> "input", input |-> job.json[1], parsed |-> NotParsed,
               json |-> None, origin |-> job.json, source |-> Some(job.parsed.graph)]
    /\ UNCHANGED <<graph, heap, sim, snap, last, ctorInitial, api>>

NextSerialize ==
    \/ ParseMachine
    \/ GraphToJSON
    \/ Reparse

SpecSerialize == InitSerialize /\ [][NextSerialize]_vars

---------------------------------------------------------------------------
(* JSON: a document is the value its text denotes, or text that does not parse *)

JNull == [kind |-> "null", str |-> "", num |-> 0, items |-> <<>>]
JStr(s) == [kind |-> "string", str |-> s, num |-> 0, items |-> <<>>]
JNum(n) == [kind |-> "number", str |-> "", num |-> n, items |-> <<>>]
JArr(items) == [kind |-> "array", str |-> "", num |-> 0, items |-> items]
\* members: [key, val] entries in key order
JObj(members) == [kind |-> "object", str |-> "", num |-> 0, items |-> members]

Member(key, val) == <<[key |-> key, val |-> val]>>

\* a member whose value is undefined is not written
OptionalMember(key, opt) == IF opt = None THEN <<>> ELSE Member(key, opt[1])

Strings(seq) == JArr([i \in DOMAIN seq |-> JStr(seq[i])])

\* JSON.stringify of a transition target: a string or a TransitionConfig
TransitionJSON(d) ==
    IF d.isString THEN JStr(d.target)
    ELSE JObj(Member("target", JStr(d.target))
              \o OptionalMember("cond", IF d.cond = None THEN None ELSE Some(JStr(d.cond[1])))
              \o OptionalMember("actions",
                                IF d.actions = None THEN None ELSE Some(Strings(d.actions[1]))))

\* JSON.stringify of a StateDefinition
StateJSON(def) ==
    JObj(OptionalMember("type", IF def.type = None THEN None ELSE Some(JStr(def.type[1])))
         \o OptionalMember("on",
                IF def.on = None THEN None
                ELSE Some(JObj([i \in DOMAIN def.on[1] |->
                              [key |-> def.on[1][i].key,
                               val |-> TransitionJSON(def.on[1][i].val)]]))))

\* JSON.stringify of a MachineDefinition
DefinitionJSON(def) ==
    JObj(OptionalMember("initial", IF def.initial = None THEN None ELSE Some(JStr(def.initial[1])))
         \o OptionalMember("states",
                IF def.states = None THEN None
                ELSE Some(JObj([i \in DOMAIN def.states[1] |->
                              [key |-> def.states[1][i].key,
                               val |-> StateJSON(def.states[1][i].val)]]))))

\* value[key] of a parsed document: None stands for undefined
Get(value, key) ==
    IF value.kind = "object" /\ \E i \in DOMAIN value.items : value.items[i].key = key
    THEN Some(value.items[CHOOSE i \in DOMAIN value.items : value.items[i].key = key].val)
    ELSE None

\* !x for x read from a parsed document
Falsy(opt) ==
    \/ opt = None
    \/ opt[1].kind = "null"
    \/ opt[1].kind = "string" /\ opt[1].str = ""
    \/ opt[1].kind = "number" /\ opt[1].num = 0

Text(value) == [wellFormed |-> TRUE, value |-> value]
NotJSON == [wellFormed |-> FALSE, value |-> JNull]

---------------------------------------------------------------------------
(* io: exportSession, importSession *)

\* `now` is new Date().toISOString()
exportSession(h, g, st, now) ==
    LET simState == getState(st)
    IN Text(JObj(Member("machine", DefinitionJSON(graphToJSON(g)))
                 \o Member("simulation",
                        JObj(Member("history", Strings(h[simState.history]))
                             \o Member("log", Strings(h[simState.log]))
                             \o Member("currentStep", JNum(simState.steps))))
                 \o Member("meta",
                        JObj(Member("createdAt", JStr(now))
                             \o Member("version", JStr("1.0.0"))))))

ImportError(cause) ==
    [raised |-> TRUE, message |-> "Failed to import session: " \o cause, cause |-> cause,
     ret |-> None]

\* Mutant: the format error is thrown outside the try block
importSessionUnwrappedFormatError(jsonString) ==
    IF ~jsonString.wellFormed THEN ImportError("Unexpected token in JSON")
    ELSE LET session == jsonString.value
             machine == Get(session, "machine")
             simulation == Get(session, "simulation")
         IN IF session.kind = "null"
            THEN ImportError("Cannot read properties of null (reading 'machine')")
            ELSE IF Falsy(machine) \/ Falsy(Get(machine[1], "states"))
            THEN [raised |-> TRUE,
                  message |-> "Invalid session format: Missing machine definition.",
                  cause |-> "", ret |-> None]
            ELSE [raised |-> FALSE, message |-> "", cause |-> "",
                  ret |-> Some([machine |-> machine[1],
                                history |-> IF Falsy(simulation) THEN Some(JArr(<<>>))
                                            ELSE Get(simulation[1], "history")])]

\* Mutant: the log is returned as the history
importSessionReturnsLog(jsonString) ==
    IF ~jsonString.wellFormed THEN ImportError("Unexpected token in JSON")
    ELSE LET session == jsonString.value
             machine == Get(session, "machine")
             simulation == Get(session, "simulation")
         IN IF session.kind = "null"
            THEN ImportError("Cannot read properties of null (reading 'machine')")
            ELSE IF Falsy(machine) \/ Falsy(Get(machine[1], "states"))
            THEN ImportError("Invalid session format: Missing machine definition.")
            ELSE [raised |-> FALSE, message |-> "", cause |-> "",
                  ret |-> Some([machine |-> machine[1],
                                history |-> IF Falsy(simulation) THEN Some(JArr(<<>>))
                                            ELSE Get(simulation[1], "log")])]

\* JSON.parse, the check of machine and machine.states, and the catch that wraps
importSession(jsonString) ==
    IF ~jsonString.wellFormed THEN ImportError("Unexpected token in JSON")
    ELSE LET session == jsonString.value
             machine == Get(session, "machine")
             simulation == Get(session, "simulation")
         IN IF session.kind = "null"
            THEN ImportError("Cannot read properties of null (reading 'machine')")
            ELSE IF Falsy(machine) \/ Falsy(Get(machine[1], "states"))
            THEN ImportError("Invalid session format: Missing machine definition.")
            ELSE [raised |-> FALSE, message |-> "", cause |-> "",
                  ret |-> Some([machine |-> machine[1],
                                history |-> IF Falsy(simulation) THEN Some(JArr(<<>>))
                                            ELSE Get(simulation[1], "history")])]

---------------------------------------------------------------------------
(* A session: an engine is run, exported once, run on, and the document imported *)

\* a guarded transition, a transition with actions, an orphan final state
SessionDefinitions ==
    { Definition(Some("A"), Some(<<
          [key |-> "A", val |-> StateDef(None, Some(<<On("go", Obj("B", Some("isValid"), None))>>))],
          [key |-> "B", val |-> StateDef(None,
              Some(<<On("back", Obj("A", None, Some(<<"notify">>))), On("go", Str("B"))>>))],
          [key |-> "C", val |-> StateDef(Some("final"), None)]>>)) }

SessionEvents == {"go"}

Clock == {"2026-01-01T00:00:00.000Z", "2026-01-02T00:00:00.000Z"}

\* documents exportSession did not write
ForeignDocuments ==
    { NotJSON,
      Text(JNull),
      Text(JStr("session")),
      Text(JObj(<<>>)),
      Text(JObj(Member("machine", JNull))),
      Text(JObj(Member("machine", JObj(Member("initial", JStr("A")))))),
      Text(JObj(Member("simulation", JObj(Member("history", Strings(<<"A">>)))))),
      Text(JObj(Member("machine", JObj(Member("states", JNull))))),
      Text(JObj(Member("machine", JObj(Member("states", JObj(<<>>)))))),
      Text(JObj(Member("machine", DefinitionJSON(Definition(Some("A"),
               Some(<<[key |-> "A", val |-> StateDef(None, None)]>>)))))),
      Text(JObj(Member("machine", JObj(Member("states", JObj(<<>>))))
                \o Member("simulation", JNull))) }

NotImported == [raised |-> FALSE, message |-> "", cause |-> "", ret |-> None]

InitSession == InitOn(SessionDefinitions)

\* document = exportSession(graph, sim); `history` is the engine's history at this moment
ExportSession(now) ==
    /\ job.phase = "none"
    /\ job' = [phase |-> "exported", own |-> TRUE,
               doc |-> exportSession(heap, graph, sim, now),
               history |-> History, result |-> NotImported]
    /\ UNCHANGED <<graph, heap, sim, snap, last, ctorInitial, api>>

\* importSession(document)
ImportSession ==
    /\ job.phase = "exported"
    /\ job' = [job EXCEPT !.phase = "imported", !.result = importSession(job.doc)]
    /\ UNCHANGED <<graph, heap, sim, snap, last, ctorInitial, api>>

\* importSession of a document that came from elsewhere
ImportDocument(doc) ==
    /\ job.phase = "none"
    /\ job' = [phase |-> "imported", own |-> FALSE, doc |-> doc, history |-> <<>>,
               result |-> importSession(doc)]
    /\ UNCHANGED <<graph, heap, sim, snap, last, ctorInitial, api>>

NextSession ==
    \/ \E e \in SessionEvents : Send(e, FALSE)
    \/ Reset(FALSE)
    \/ \E i \in Indexes : TimeTravel(i, FALSE)
    \/ \E now \in Clock : ExportSession(now)
    \/ ImportSession
    \/ \E doc \in ForeignDocuments : ImportDocument(doc)

SpecSession == InitSession /\ [][NextSession]_vars

---------------------------------------------------------------------------
(* Claims about SimulationEngine *)

IsPrefix(s, t) == Len(s) <= Len(t) /\ s = SubSeq(t, 1, Len(s))

\* the transition the last successful send took
TakenTransition ==
    MapGet(MapGet(graph.nodes, History[Len(History) - 1]).transitions, last.event)

\* C1: when the active state's table has an entry for e, send(e) moves to that
\* transition's target, adds 1 to steps, appends the target to history and
\* appends exactly one log entry, whether or not the transition carries a guard.
C1_SendTakesTransition ==
    [][(last'.op = "send" /\ MapHas(ActiveNode.transitions, last'.event))
        => /\ last'.success
           /\ sim'.activeStateId = MapGet(ActiveNode.transitions, last'.event).target
           /\ sim'.steps = sim.steps + 1
           /\ heap'[sim'.history] = Append(History, sim'.activeStateId)
           /\ Len(heap'[sim'.log]) = Len(Log) + 1
           /\ IsPrefix(Log, heap'[sim'.log])]_vars

\* C1 witness: a send has just taken a transition that carries a guard
C1_GuardedSendTaken ==
    /\ last.op = "send"
    /\ last.success
    /\ TakenTransition.cond # None
    /\ sim.activeStateId = TakenTransition.target

\* C2: when the active state has no transition for e, send(e) and the facade's
\* step(e) do not raise, leave activeStateId, steps and history unchanged and
\* append exactly one log entry.
C2_FailedSendOnlyLogs ==
    [][(last'.op \in {"send", "step"} /\ ~MapHas(ActiveNode.transitions, last'.event))
        => /\ ~last'.raised
           /\ ~last'.success
           /\ sim'.activeStateId = sim.activeStateId
           /\ sim'.steps = sim.steps
           /\ heap'[sim'.history] = History
           /\ Len(heap'[sim'.log]) = Len(Log) + 1
           /\ IsPrefix(Log, heap'[sim'.log])]_vars

\* C2 witness: step(e) has just failed in a state that handles another event,
\* after at least one transition
C2_StepFailed ==
    /\ last.op = "step"
    /\ ~last.success
    /\ last.reason = "INVALID_EVENT"
    /\ sim.steps >= 1
    /\ ActiveNode.transitions # <<>>

\* C3: timeTravel(k) with 0 <= k < history.length sets activeStateId to the old
\* history[k], steps to k, history to the first k+1 old entries and the log to
\* the first k+1 old entries plus one time-travel entry; and no timeTravel call
\* yields anything but a prefix of the history it started from.
C3_TimeTravelTruncates ==
    [][last'.op = "timeTravel"
        => /\ IsPrefix(heap'[sim'.history], History)
           /\ (0 <= last'.index /\ last'.index < Len(History))
               => LET k == last'.index
                  IN /\ sim'.activeStateId = History[k + 1]
                     /\ sim'.steps = k
                     /\ heap'[sim'.history] = SubSeq(History, 1, k + 1)
                     /\ heap'[sim'.log] = Append(SubSeq(Log, 1, k + 1),
                                                 "Time traveled to step " \o ToString(k))
                     /\ Len(heap'[sim'.log]) = k + 2]_vars

\* C3 witness: timeTravel(1) has just acted on a log that held failed sends
C3_TraveledToStepOne ==
    /\ last.op = "timeTravel"
    /\ last.index = 1
    /\ sim.steps = 1
    /\ Len(History) = 2
    /\ Log[3] = "Time traveled to step 1"
    /\ Log[2] = "Event 'UNKNOWN_EVENT' -> Failed: INVALID_EVENT"

\* C4: timeTravel(k) with k < 0 or k >= history.length does not raise, changes
\* nothing and returns the current snapshot.
C4_TimeTravelOutOfRangeIgnored ==
    [][(last'.op = "timeTravel" /\ (last'.index < 0 \/ last'.index >= Len(History)))
        => /\ ~last'.raised
           /\ sim' = sim
           /\ heap' = heap
           /\ last'.ret = getState(sim)]_vars

\* C4 witness: timeTravel(history.length) has just been called after two steps
C4_TraveledToLength ==
    /\ last.op = "timeTravel"
    /\ last.index = Len(History)
    /\ sim.steps = 2

\* C5: reset() yields activeStateId = the initial id the constructor captured
\* (not the graph's current initial field), steps = 0, history = [that id] and
\* a log of exactly one entry.
C5_ResetRestoresConstructionInitial ==
    last.op = "reset"
        => /\ sim.activeStateId = ctorInitial
           /\ sim.steps = 0
           /\ History = <<ctorInitial>>
           /\ Len(Log) = 1

C7_HeldStateIsValue ==
    [][(snap # None /\ ~last'.kept)
        => /\ snap' = snap
           /\ heap'[snap[1].history] = heap[snap[1].history]
           /\ heap'[snap[1].log] = heap[snap[1].log]]_vars

\* C9: getAvailableEvents() returns exactly the events with an entry in the
\* active node's table, and send(e) succeeds if and only if e is one of them.
C9_AvailableEventsDecideSend ==
    /\ Range(getAvailableEvents(sim, graph))
         = {ActiveNode.transitions[i].val.event : i \in DOMAIN ActiveNode.transitions}
    /\ \A e \in EventInputs :
         send(heap, sim, graph, e).result.success
             <=> e \in Range(getAvailableEvents(sim, graph))

\* C9 witness: a guarded event is on offer after a send
C9_GuardedEventOffered ==
    /\ last.op = "send"
    /\ getAvailableEvents(sim, graph) # <<>>
    /\ \E i \in DOMAIN ActiveNode.transitions : ActiveNode.transitions[i].val.cond # None

\* C10: whenever the active state is final, or has no outgoing transitions,
\* getAvailableEvents() returns an empty list.
C10_FinalOrExitlessOffersNothing ==
    (ActiveNode.type = "final" \/ ActiveNode.outgoing = <<>>)
        => getAvailableEvents(sim, graph) = <<>>

---------------------------------------------------------------------------
(* Claims about parseMachine *)

Parsed == job.phase \in {"parsed", "analyzed", "reported"}

\* the keys of `states`, and every [state, event, target] a definition declares
DeclaredKeys(input) == {input.states[1][i].key : i \in DOMAIN input.states[1]}

Targets(input) ==
    {<<i, j>> \in (DOMAIN input.states[1]) \X (1..2) :
        /\ input.states[1][i].val.on # None
        /\ j \in DOMAIN input.states[1][i].val.on[1]}

TargetOf(input, p) == input.states[1][p[1]].val.on[1][p[2]].val.target

AbsentTargets(input) ==
    {p \in Targets(input) : TargetOf(input, p) \notin DeclaredKeys(input)}

\* the first absent target in declaration order: states first, then the events of a state
FirstAbsentTarget(input) ==
    CHOOSE p \in AbsentTargets(input) :
        \A q \in AbsentTargets(input) : p[1] < q[1] \/ (p[1] = q[1] /\ p[2] <= q[2])

PathOf(input, p) ==
    <<"states", input.states[1][p[1]].key, "on", input.states[1][p[1]].val.on[1][p[2]].key>>

HasStates(input) == input.isObject /\ input.states # None

InitialDeclared(input) ==
    HasStates(input) /\ input.initial # None /\ input.initial[1] \in DeclaredKeys(input)

\* C14: a definition whose initial is a string key of states and whose every transition
\* target is a key of states parses, whatever the declaration order; the graph has exactly
\* one node per key of states and the definition's initial
C14_ConsistentDefinitionParses ==
    (Parsed /\ InitialDeclared(job.input) /\ AbsentTargets(job.input) = {})
        => /\ job.parsed.ok
           /\ Range(MapKeys(job.parsed.graph.nodes)) = DeclaredKeys(job.input)
           /\ Len(job.parsed.graph.nodes) = Len(job.input.states[1])
           /\ job.parsed.graph.initial = job.input.initial[1]

\* a parsed definition of three states whose initial is declared last and whose first
\* state targets a state declared after it
C14_ForwardReferenceParsed ==
    /\ Parsed /\ job.parsed.ok
    /\ Len(job.input.states[1]) = 3
    /\ job.input.states[1][3].key = job.input.initial[1]
    /\ <<1, 1>> \in Targets(job.input)
    /\ TargetOf(job.input, <<1, 1>>) = job.input.states[1][2].key

\* C15 as stated: whenever a definition references a transition target absent from states,
\* parseMachine fails with INVALID_REFERENCE and a path [states, id, on, event] naming an
\* offending state and event
C15_AbsentTargetIsReported ==
    (Parsed /\ HasStates(job.input) /\ AbsentTargets(job.input) # {})
        => /\ ~job.parsed.ok
           /\ job.parsed.error.code = "INVALID_REFERENCE"
           /\ \E p \in AbsentTargets(job.input) :
                  job.parsed.error.path = Some(PathOf(job.input, p))

\* C15 amended: whenever a definition whose initial is a string key of states references a
\* transition target absent from states, parseMachine fails with INVALID_REFERENCE and a
\* path [states, id, on, event] naming an offending state and event
C15_AbsentTargetIsReportedPastInitial ==
    (Parsed /\ InitialDeclared(job.input) /\ AbsentTargets(job.input) # {})
        => /\ ~job.parsed.ok
           /\ job.parsed.error.code = "INVALID_REFERENCE"
           /\ \E p \in AbsentTargets(job.input) :
                  job.parsed.error.path = Some(PathOf(job.input, p))

\* a definition with a declared initial and an absent object-form target was parsed
C15_AbsentObjectTargetParsed ==
    /\ Parsed /\ InitialDeclared(job.input)
    /\ \E p \in AbsentTargets(job.input) :
           /\ ~job.input.states[1][p[1]].val.on[1][p[2]].val.isString
           /\ job.parsed.error.path = Some(PathOf(job.input, p))

\* the checks of parseMachine in the order C16 gives them, and the first one an input
\* violates (0: none)
FirstViolatedCheck(input) ==
    IF ~input.isObject THEN 1
    ELSE IF input.initial = None THEN 2
    ELSE IF input.states = None THEN 3
    ELSE IF input.initial[1] \notin DeclaredKeys(input) THEN 4
    ELSE IF AbsentTargets(input) # {} THEN 5
    ELSE 0

\* what a ParserError reports: its code, and what its message and path name
ReportedCheck(error) ==
    IF error.code = "INVALID_SCHEMA" /\ error.details = "Input must be an object." THEN 1
    ELSE IF error.code = "MISSING_INITIAL" THEN 2
    ELSE IF error.code = "INVALID_SCHEMA" THEN 3
    ELSE IF error.code = "INVALID_REFERENCE" /\ error.path = Some(<<"initial">>) THEN 4
    ELSE IF error.code = "INVALID_REFERENCE" THEN 5
    ELSE 0

\* C16: parseMachine fails on the first violated check in the order: input is an object,
\* initial is a string, states is an object, initial is a key of states, every transition
\* target in declaration order; only that defect is reported and no graph is returned
C16_FirstDefectIsReported ==
    (Parsed /\ FirstViolatedCheck(job.input) # 0)
        => /\ ~job.parsed.ok
           /\ job.parsed.graph = EmptyGraph
           /\ ReportedCheck(job.parsed.error) = FirstViolatedCheck(job.input)
           /\ FirstViolatedCheck(job.input) = 5
                => job.parsed.error.path
                       = Some(PathOf(job.input, FirstAbsentTarget(job.input)))

\* a definition with absent targets in two states was parsed
C16_TwoDefectiveStatesParsed ==
    /\ Parsed /\ FirstViolatedCheck(job.input) = 5
    /\ \E p, q \in AbsentTargets(job.input) : p[1] # q[1]

\* C17 as stated: every ParserError parseMachine raises carries a path
C17_EveryErrorHasPath ==
    (Parsed /\ ~job.parsed.ok) => job.parsed.error.path # None

\* C17 amended: every INVALID_REFERENCE error parseMachine raises carries a path that
\* locates the offending element ([initial], or [states, id, on, event] of an absent
\* target); INVALID_SCHEMA and MISSING_INITIAL errors carry no path
C17_ReferenceErrorsHavePath ==
    (Parsed /\ ~job.parsed.ok)
        => IF job.parsed.error.code = "INVALID_REFERENCE"
           THEN \/ /\ job.parsed.error.path = Some(<<"initial">>)
                   /\ job.input.initial[1] \notin DeclaredKeys(job.input)
                \/ \E p \in AbsentTargets(job.input) :
                       job.parsed.error.path = Some(PathOf(job.input, p))
           ELSE /\ job.parsed.error.code \in {"INVALID_SCHEMA", "MISSING_INITIAL"}
                /\ job.parsed.error.path = None

\* a definition whose initial is not a key of states was parsed
C17_UndeclaredInitialParsed ==
    /\ Parsed /\ ~job.parsed.ok
    /\ job.parsed.error.code = "INVALID_REFERENCE"
    /\ job.parsed.error.path = Some(<<"initial">>)

\* C18: in every graph parseMachine returns, initial is a key of nodes, and every
\* transition of a node, in its table and in its outgoing list, has a target that is a key
\* of nodes and the node's id as its source
C18_GraphIsClosed ==
    (Parsed /\ job.parsed.ok)
        => LET g == job.parsed.graph
           IN /\ MapHas(g.nodes, g.initial)
              /\ \A i \in DOMAIN g.nodes :
                     LET node == g.nodes[i].val
                     IN /\ node.id = g.nodes[i].key
                        /\ \A t \in Range(node.outgoing)
                                      \cup {node.transitions[k].val : k \in DOMAIN node.transitions} :
                               MapHas(g.nodes, t.target) /\ t.source = node.id

\* a graph was returned in which a node other than the first has two transitions to
\* other nodes
C18_TwoTransitionsLinked ==
    /\ Parsed /\ job.parsed.ok
    /\ \E i \in DOMAIN job.parsed.graph.nodes :
           /\ i > 1
           /\ Len(job.parsed.graph.nodes[i].val.outgoing) = 2
           /\ \A t \in Range(job.parsed.graph.nodes[i].val.outgoing) :
                  t.target # job.parsed.graph.nodes[i].key

---------------------------------------------------------------------------
(* Claims about the analyzer *)

Analyzed == job.phase \in {"analyzed", "reported"}

NodeIds(g) == Range(MapKeys(g.nodes))

\* a transition in the table of node a leads to b
Leads(g, a, b) ==
    /\ MapHas(g.nodes, a)
    /\ \E k \in DOMAIN MapGet(g.nodes, a).transitions :
           MapGet(g.nodes, a).transitions[k].val.target = b

\* the node ids at the end of a chain of zero or more transitions from initial
ReachableIds(g) ==
    {id \in NodeIds(g) :
        \E n \in 1..Len(g.nodes) : \E c \in [1..n -> NodeIds(g)] :
            /\ c[1] = g.initial
            /\ c[n] = id
            /\ \A i \in 1..(n - 1) : Leads(g, c[i], c[i + 1])}

\* C19: reachable is exactly the set of node ids reachable from initial by zero or more
\* transitions, orphans is exactly the node ids outside it, the two partition the node
\* ids, and initial is reachable
C19_ReachableAndOrphansPartition ==
    Analyzed
        => LET g == job.parsed.graph
               reachable == Range(job.analysis.reachable)
               orphans == Range(job.analysis.orphans)
           IN /\ reachable = ReachableIds(g)
              /\ orphans = NodeIds(g) \ reachable
              /\ reachable \cap orphans = {}
              /\ reachable \cup orphans = NodeIds(g)
              /\ g.initial \in reachable
              /\ Len(job.analysis.reachable) = Cardinality(reachable)
              /\ Len(job.analysis.orphans) = Cardinality(orphans)

\* a graph was analyzed in which a node is reachable only over two transitions
C19_ReachedOverTwoTransitions ==
    /\ Analyzed
    /\ \E id \in Range(job.analysis.reachable) :
           /\ id # job.parsed.graph.initial
           /\ ~Leads(job.parsed.graph, job.parsed.graph.initial, id)

---------------------------------------------------------------------------
(* Claims about StateMachineAPI *)

\* the last loadMachine call failed, or succeeded
LoadFailed == last.load # None /\ ~parseMachine(last.load[1].definition).ok
LoadSucceeded == last.load # None /\ parseMachine(last.load[1].definition).ok

\* C11: a failed loadMachine raises to the caller and leaves graph, simulator and
\* lastAnalysis absent, whether or not a machine was loaded before; getGraph and
\* getSimulationState return nothing, getAvailableEvents is empty, and getDiagnostics
\* returns status error, zero metrics and exactly one issue, of severity error, carrying
\* the parse error's code and path
C11_FailedLoadClearsFacade ==
    LoadFailed
        => LET error == parseMachine(last.load[1].definition).error
               report == getDiagnostics(api)
           IN /\ last.load[1].raised
              /\ last.load[1].thrown = Some(error)
              /\ api.graph = None /\ api.simulator = None /\ api.lastAnalysis = None
              /\ getGraph(api) = None
              /\ getSimulationState(api) = None
              /\ StateMachineAPI_getAvailableEvents(api) = <<>>
              /\ report.status = "error"
              /\ report.metrics = Metrics(0, 0, 0)
              /\ Len(report.issues) = 1
              /\ report.issues[1].severity = "error"
              /\ report.issues[1].code = error.code
              /\ report.issues[1].path = error.path

\* getDiagnostics was called after a load that failed on a facade holding an earlier
\* machine
C11_DiagnosticsAfterFailedReload ==
    /\ LoadFailed
    /\ last.load[1].before.loaded
    /\ last.op = "getDiagnostics"
    /\ last.ret[1].issues[1].code = "INVALID_REFERENCE"
    /\ last.ret[1].issues[1].path = Some(<<"states", "A", "on", "go">>)

\* C12: step and reset called while no machine is loaded throw the usage error and leave
\* the facade's state unchanged; called while a machine is loaded they do not throw
C12_UnloadedStepAndResetThrow ==
    [][last'.op \in {"step", "reset"}
         => IF getGraph(api) = None
            THEN /\ last'.raised
                 /\ last'.thrown = Some(UsageError)
                 /\ api' = api
                 /\ heap' = heap
            ELSE ~last'.raised /\ last'.ret # None]_vars

\* reset threw on a facade whose last load failed after an earlier one had succeeded
C12_ResetThrewAfterFailedLoad ==
    /\ LoadFailed
    /\ last.load[1].before.loaded
    /\ last.op = "reset"
    /\ last.raised

\* C13: right after a successful loadMachine(d), whatever came before, the simulation
\* state is fresh for d (active state d.initial, steps 0, history [d.initial], one log
\* entry), no parser error is kept, and getDiagnostics is the report on the graph of d
C13_LoadStartsAfresh ==
    (LoadSucceeded /\ last.op = "loadMachine")
        => LET d == last.load[1].definition
               g == parseMachine(d).graph
               state == getSimulationState(api)
           IN /\ ~last.raised
              /\ getGraph(api) = Some(g)
              /\ state # None
              /\ state[1].activeStateId = d.initial[1]
              /\ state[1].steps = 0
              /\ heap[state[1].history] = <<d.initial[1]>>
              /\ heap[state[1].log] = <<"Initialized at " \o d.initial[1]>>
              /\ api.lastParserError = None
              /\ getDiagnostics(api) = generateReport(g, analyzeGraph(g))
              /\ getDiagnostics(api).metrics.totalStates = Len(d.states[1])

\* a machine was loaded into a facade that had taken steps on another machine
C13_LoadedOverSteppedMachine ==
    /\ LoadSucceeded /\ last.op = "loadMachine"
    /\ last.load[1].before.steps > 0
    /\ last.load[1].definition.initial = Some("B")

---------------------------------------------------------------------------
(* Claims about cycles and reports *)

\* the transitions in the table of a node
TableOf(g, id) ==
    {MapGet(g.nodes, id).transitions[k].val : k \in DOMAIN MapGet(g.nodes, id).transitions}

\* every reachable state has one transition, and one of them leads back to initial: the
\* reachable states are one directed ring through initial
SingleRing(g) ==
    /\ \A id \in ReachableIds(g) : Cardinality(TableOf(g, id)) = 1
    /\ \E id \in ReachableIds(g) : Leads(g, id, g.initial)

\* some chain of one or more transitions leads from a reachable state back to it
HasDirectedCycle(g) ==
    \E id \in ReachableIds(g) :
        \E n \in 1..Len(g.nodes) : \E c \in [1..(n + 1) -> NodeIds(g)] :
            /\ c[1] = id
            /\ c[n + 1] = id
            /\ \A i \in 1..n : Leads(g, c[i], c[i + 1])

\* C21: for a graph whose reachable states form a single directed ring through initial,
\* analyzeGraph returns exactly one cycle record whose members are exactly the states on
\* the ring
C21_RingIsOneCycle ==
    (Analyzed /\ SingleRing(job.parsed.graph))
        => /\ Len(job.analysis.cycles) = 1
           /\ Range(job.analysis.cycles[1]) = ReachableIds(job.parsed.graph)
           /\ Len(job.analysis.cycles[1]) = Cardinality(ReachableIds(job.parsed.graph))

\* a ring of three states was analyzed
C21_RingOfThreeAnalyzed ==
    /\ Analyzed /\ SingleRing(job.parsed.graph)
    /\ Cardinality(ReachableIds(job.parsed.graph)) = 3

\* C22: cycles is empty if and only if the subgraph reachable from initial contains no
\* directed cycle, a self-loop being a cycle
C22_NoCycleRecordIffAcyclic ==
    Analyzed => (job.analysis.cycles = <<>> <=> ~HasDirectedCycle(job.parsed.graph))

\* an acyclic graph was analyzed in which two reachable states lead to the same state
C22_AcyclicWithSharedTarget ==
    /\ Analyzed /\ job.analysis.cycles = <<>>
    /\ \E a, b, c \in ReachableIds(job.parsed.graph) :
           a # b /\ Leads(job.parsed.graph, a, c) /\ Leads(job.parsed.graph, b, c)

Reported == job.phase = "reported"

\* the positions of the issues with a code
IssuesOf(report, code) == {i \in DOMAIN report.issues : report.issues[i].code = code}

\* C23: generateReport emits exactly one warning UNREACHABLE_STATE issue per orphan, one
\* warning DEAD_END issue per dead end, one info CYCLE_DETECTED issue per cycle record and
\* no other issue: the number of issues is |orphans| + |deadEnds| + |cycles|
C23_OneIssuePerFinding ==
    Reported
        => LET r == job.report
               a == job.analysis
           IN /\ Len(r.issues) = Len(a.orphans) + Len(a.deadEnds) + Len(a.cycles)
              /\ \A i \in DOMAIN r.issues :
                     \/ r.issues[i].code \in {"UNREACHABLE_STATE", "DEAD_END"}
                            /\ r.issues[i].severity = "warning"
                     \/ r.issues[i].code = "CYCLE_DETECTED" /\ r.issues[i].severity = "info"
              /\ \A id \in Range(a.orphans) :
                     Cardinality({i \in IssuesOf(r, "UNREACHABLE_STATE") :
                                     r.issues[i].relatedIds = Some(<<id>>)}) = 1
              /\ Cardinality(IssuesOf(r, "UNREACHABLE_STATE")) = Len(a.orphans)
              /\ \A id \in Range(a.deadEnds) :
                     Cardinality({i \in IssuesOf(r, "DEAD_END") :
                                     r.issues[i].relatedIds = Some(<<id>>)}) = 1
              /\ Cardinality(IssuesOf(r, "DEAD_END")) = Len(a.deadEnds)
              /\ \A k \in DOMAIN a.cycles :
                     Cardinality({i \in IssuesOf(r, "CYCLE_DETECTED") :
                                     r.issues[i].relatedIds = Some(a.cycles[k])})
                         = Cardinality({j \in DOMAIN a.cycles : a.cycles[j] = a.cycles[k]})
              /\ Cardinality(IssuesOf(r, "CYCLE_DETECTED")) = Len(a.cycles)

\* a report was generated for a graph with an orphan, a dead end and a cycle
C23_ReportOfThreeFindings ==
    /\ Reported
    /\ job.analysis.orphans # <<>>
    /\ job.analysis.deadEnds # <<>>
    /\ job.analysis.cycles # <<>>

\* C24: the status of a report is error if an issue has severity error, else warning if
\* an issue is a warning, else valid; for a parsed machine it is warning exactly when
\* there is an orphan or a dead end, valid otherwise (cycles alone leave it valid), and
\* never error
C24_StatusFollowsSeverity ==
    Reported
        => LET r == job.report
               severities == {r.issues[i].severity : i \in DOMAIN r.issues}
           IN /\ r.status = IF "error" \in severities THEN "error"
                            ELSE IF "warning" \in severities THEN "warning"
                            ELSE "valid"
              /\ r.status = "warning"
                     <=> (job.analysis.orphans # <<>> \/ job.analysis.deadEnds # <<>>)
              /\ r.status # "warning" => r.status = "valid"
              /\ r.status # "error"

\* a report was generated for a graph with a cycle and neither orphan nor dead end
C24_ReportOfCycleAlone ==
    /\ Reported
    /\ job.analysis.orphans = <<>>
    /\ job.analysis.deadEnds = <<>>
    /\ job.analysis.cycles # <<>>
    /\ job.report.status = "valid"

---------------------------------------------------------------------------
(* Claims about the serializer *)

\* C25: for a graph g built by parseMachine, graphToJSON(parseMachine(graphToJSON(g)))
\* equals graphToJSON(g): what graphToJSON wrote parses, and serializing the parsed graph
\* writes the same definition
C25_GraphToJSONIsStable ==
    job.origin # None
        => /\ job.phase \in {"parsed", "serialized"} => job.parsed.ok
           /\ job.phase = "serialized" => job.json = job.origin

\* a graph with a guarded transition, a transition with actions only and an object-form
\* transition without either was serialized, parsed and serialized again
C25_SerializedTwice ==
    /\ job.origin # None
    /\ job.phase = "serialized"
    /\ \E i \in DOMAIN job.json[1].states[1] :
           /\ job.json[1].states[1][i].val.on # None
           /\ \E k \in DOMAIN job.json[1].states[1][i].val.on[1] :
                  LET d == job.json[1].states[1][i].val.on[1][k].val
                  IN ~d.isString /\ d.cond = None /\ d.actions = Some(<<"notify">>)

Imported == job.phase = "imported"

\* C26: importSession(exportSession(g, s)), for an engine s in any state reached by send,
\* reset and timeTravel, returns a machine equal to graphToJSON(g) and a history equal to
\* the history of s at the moment of export; values are equal when their JSON is
C26_SessionRoundTrip ==
    (Imported /\ job.own)
        => /\ ~job.result.raised
           /\ job.result.ret # None
           /\ job.result.ret[1].machine = DefinitionJSON(graphToJSON(graph))
           /\ job.result.ret[1].history = Some(Strings(job.history))

\* a session exported after two steps was imported after the engine had travelled back
C26_ImportedAfterEngineMovedOn ==
    /\ Imported /\ job.own
    /\ Len(job.history) = 3
    /\ Len(History) = 1
    /\ last.op = "timeTravel"

\* C27: importSession on a document that is not valid JSON, or that lacks machine or
\* machine.states, fails with one wrapping error and returns nothing; on a document with
\* machine.states and no simulation block it succeeds with an empty history
C27_ImportRejectsIncompleteDocuments ==
    Imported
        => LET machine == Get(job.doc.value, "machine")
               incomplete == \/ ~job.doc.wellFormed
                             \/ Falsy(machine)
                             \/ Falsy(Get(machine[1], "states"))
           IN /\ incomplete
                  => /\ job.result.raised
                     /\ job.result.ret = None
                     /\ job.result.message = "Failed to import session: " \o job.result.cause
                     /\ job.result.cause # ""
              /\ (~incomplete /\ Get(job.doc.value, "simulation") = None)
                  => /\ ~job.result.raised
                     /\ job.result.ret # None
                     /\ job.result.ret[1].machine = machine[1]
                     /\ job.result.ret[1].history = Some(JArr(<<>>))

\* a document with a machine that has no states was imported
C27_MachineWithoutStatesImported ==
    /\ Imported
    /\ job.doc.wellFormed
    /\ ~Falsy(Get(job.doc.value, "machine"))
    /\ Get(Get(job.doc.value, "machine")[1], "states") = None
    /\ job.result.raised

---------------------------------------------------------------------------
(* A caller that writes to the AnalysisResult analyzeMachine returned *)

\* ids the caller adds: one of a state of the loaded machine, one of no state
OrphanIds == {"A", "X"}

\* analyzeMachine returns this.lastAnalysis itself (`return this.lastAnalysis`): with a
\* graph loaded the object the caller writes to is the one the facade keeps
orphansAdd(a, id) ==
    IF a.graph = None THEN a
    ELSE [a EXCEPT !.lastAnalysis = Some([@[1] EXCEPT !.orphans = SetAdd(@, id)])]

\* api.analyzeMachine().orphans.add(id)
AddToReturnedOrphans(id) ==
    LET r == analyzeMachine(api)
    IN /\ api' = orphansAdd(r.api, id)
       /\ last' = FacadeCall("orphans.add", id, Returned(Some(r.ret)), last.load)
       /\ UNCHANGED <<graph, heap, sim, snap, ctorInitial, job>>

NextFacadeCaller ==
    \/ NextFacade
    \/ \E id \in OrphanIds : AddToReturnedOrphans(id)

SpecFacadeCaller == InitFacade /\ [][NextFacadeCaller]_vars

---------------------------------------------------------------------------
(* Claims on what the facade hands out and holds *)

\* C28: the values the facade hands out are fresh, so a caller's write to an AnalysisResult
\* it got from analyzeMachine changes no later report: with a machine loaded, getDiagnostics
\* reports what generateReport makes of the analysis of the loaded graph, and analyzeMachine
\* returns that analysis.  Holds while no caller writes (SpecFacade); a write to the returned
\* orphans set shows in the next getDiagnostics (SpecFacadeCaller).
C28_ReportsIgnoreCallerWrites ==
    (api.graph # None /\ api.lastParserError = None)
        => /\ getDiagnostics(api) = generateReport(api.graph[1], analyzeGraph(api.graph[1]))
           /\ analyzeMachine(api).ret = analyzeGraph(api.graph[1])

\* C29: after every facade operation the graph, the simulator and the last analysis are
\* all present or all absent, and a captured parser error is present only when all three
\* are absent.
C29_SessionFieldsTogether ==
    /\ (api.graph = None) = (api.simulator = None)
    /\ (api.graph = None) = (api.lastAnalysis = None)
    /\ api.lastParserError # None
           => api.graph = None /\ api.simulator = None /\ api.lastAnalysis = None

\* analyzeMachine was called after a load that failed over a loaded machine
C29_AnalyzedAfterFailedReload ==
    /\ last.op = "analyzeMachine"
    /\ last.load # None /\ last.load[1].raised /\ last.load[1].before.loaded
    /\ api.lastParserError # None

---------------------------------------------------------------------------
(* Claims on the failures of send *)

\* C30: on a graph parseMachine returned, whatever send, reset and timeTravel calls were
\* made, the active state is a node of the graph and a send that fails does so with
\* reason INVALID_EVENT, never NO_TRANSITION or GUARD_PREVENTED.  Holds while every
\* stepIndex is an integer (Spec); a stepIndex between two integers passes timeTravel's
\* bounds check and leaves no active state (SpecAnyNumber).
C30_OnlyInvalidEventFails ==
    /\ MapHas(graph.nodes, sim.activeStateId)
    /\ (last.op \in {"send", "step"} /\ ~last.success) => last.reason = "INVALID_EVENT"

---------------------------------------------------------------------------
(* Claims on the history and the log of the engine *)

\* some transition of g leads from state a to state b
Joined(g, a, b) ==
    /\ MapHas(g.nodes, a)
    /\ \E t \in Range(MapGet(g.nodes, a).transitions) : t.val.target = b

\* history[steps]: steps is an integer wherever the active state is a node, and where it
\* is not, steps is no index of history and the element is undefined
HistoryAtSteps ==
    IF MapHas(graph.nodes, sim.activeStateId) THEN At(History, sim.steps) ELSE "undefined"

\* C31: the history is a run of the machine: it starts at the graph's initial id, every
\* two consecutive entries are joined by a transition of the graph, and history[steps] is
\* the active state.  Holds while every stepIndex is an integer (Spec); timeTravel(NaN)
\* leaves an empty history (SpecAnyNumber).
C31_HistoryIsARun ==
    /\ At(History, 0) = graph.initial
    /\ \A i \in 1..(Len(History) - 1) : Joined(graph, History[i], History[i + 1])
    /\ HistoryAtSteps = sim.activeStateId

\* C32: the active state and every id in history are in the reachable set analyzeGraph
\* computes for the engine's graph, and none is in its orphans set.  Holds while every
\* stepIndex is an integer (Spec); after timeTravel on a number that is no integer the
\* active state is no state at all (SpecAnyNumber).
C32_RunStaysInReachable ==
    LET analysis == analyzeGraph(graph)
    IN \A id \in {sim.activeStateId} \cup Range(History) :
           /\ id \in Range(analysis.reachable)
           /\ id \notin Range(analysis.orphans)

\* the log entry of a successful send of `event` that led to `nextState`
TransitionEntry(event, nextState) ==
    "Event '" \o event \o "' -> Transitioned to '" \o nextState \o "'"

IsTransitionEntry(entry) ==
    \E e \in EventInputs, id \in StateIds : entry = TransitionEntry(e, id)

\* C33: the log holds exactly `steps` entries of successful transitions, and the i-th of
\* them names history[i] as the state transitioned to.  timeTravel cuts the log at
\* position stepIndex + 1, whatever its entries are, so entries of failed sends and of
\* earlier time travels push transition entries out.
C33_LogCountsSteps ==
    LET entries == SelectSeq(Log, IsTransitionEntry)
    IN /\ Len(entries) = sim.steps
       /\ \A i \in 1..Len(entries) :
              \E e \in EventInputs : entries[i] = TransitionEntry(e, At(History, i))

---------------------------------------------------------------------------
(* Claims on the edges of a parsed graph *)

\* C34: in every graph parseMachine returns, a node has at most one transition per event,
\* and its outgoing list holds exactly the transitions of its event table: as many, and
\* each with the event, target, guard and actions the table has for its event.
C34_OutgoingIsEventTable ==
    (Parsed /\ job.parsed.ok)
        => \A n \in Range(job.parsed.graph.nodes) :
               LET node == n.val
               IN /\ \A i, j \in DOMAIN node.transitions :
                         node.transitions[i].key = node.transitions[j].key => i = j
                  /\ Len(node.outgoing) = Len(node.transitions)
                  /\ \A e \in Range(node.transitions) :
                         e.val.event = e.key /\ e.val \in Range(node.outgoing)
                  /\ \A t \in Range(node.outgoing) :
                         MapHas(node.transitions, t.event)
                             /\ MapGet(node.transitions, t.event) = t

\* a graph was returned with a node of two transitions, one of them guarded
C34_GuardedAndBareLinked ==
    /\ Parsed /\ job.parsed.ok
    /\ \E n \in Range(job.parsed.graph.nodes) :
           /\ Len(n.val.outgoing) = 2
           /\ \E t \in Range(n.val.outgoing) : t.cond # None
           /\ \E t \in Range(n.val.outgoing) : t.cond = None

---------------------------------------------------------------------------
(* Claims on the cycle records *)

\* C35: every cycle record holds only states reachable from initial and is a directed
\* cycle of the graph: each member has a transition to the next and the last one to the
\* first; so a cycle that lies among orphans is not reported.
C35_CycleRecordsAreReachableCycles ==
    Analyzed
        => \A c \in Range(job.analysis.cycles) :
               /\ c # <<>>
               /\ Range(c) \subseteq ReachableIds(job.parsed.graph)
               /\ \A i \in 1..(Len(c) - 1) : Leads(job.parsed.graph, c[i], c[i + 1])
               /\ Leads(job.parsed.graph, c[Len(c)], c[1])

\* a graph was analyzed that has a cycle through initial and another among its orphans
C35_OrphanCycleAnalyzed ==
    /\ Analyzed /\ job.analysis.cycles # <<>>
    /\ \E a, b \in NodeIds(job.parsed.graph) \ ReachableIds(job.parsed.graph) :
           Leads(job.parsed.graph, a, b) /\ Leads(job.parsed.graph, b, a)

\* the events of node a whose transition leads to b
EventsTo(g, a, b) ==
    {e \in Range(MapKeys(MapGet(g.nodes, a).transitions)) :
        MapGet(MapGet(g.nodes, a).transitions, e).target = b}

\* the positions of the cycle records equal to c
RecordsOf(cycles, c) == {i \in DOMAIN cycles : cycles[i] = c}

\* the paths from initial to w that pass no state twice
SimplePaths(g, w) ==
    {p \in UNION {[1..n -> NodeIds(g)] : n \in 1..Len(g.nodes)} :
        /\ p[1] = g.initial
        /\ p[Len(p)] = w
        /\ \A i, j \in DOMAIN p : p[i] = p[j] => i = j
        /\ \A i \in 1..(Len(p) - 1) : Leads(g, p[i], p[i + 1])}

\* the position in a's outgoing list of its first transition to b
EdgeIndex(g, a, b) ==
    LET out == MapGet(g.nodes, a).outgoing
    IN CHOOSE k \in DOMAIN out :
           out[k].target = b /\ \A j \in 1..(k - 1) : out[j].target # b

\* where p and q part, p takes the earlier transition
TakenBefore(g, p, q) ==
    \E i \in 2..Len(p) :
        /\ i <= Len(q)
        /\ \A j \in 1..(i - 1) : p[j] = q[j]
        /\ p[i] # q[i]
        /\ EdgeIndex(g, p[i - 1], p[i]) < EdgeIndex(g, q[i - 1], q[i])

\* the recursion stack while the transitions of w are examined: a depth-first search that
\* takes transitions in their order reaches w along the first of the simple paths to it
TreePath(g, w) ==
    CHOOSE p \in SimplePaths(g, w) :
        \A q \in SimplePaths(g, w) \ {p} : TakenBefore(g, p, q)

\* the transitions, as <<state, event>>, examined with their target on the recursion stack
BackEdges(g) ==
    {b \in ReachableIds(g) \X {"go", "back"} :
        /\ MapHas(MapGet(g.nodes, b[1]).transitions, b[2])
        /\ MapGet(MapGet(g.nodes, b[1]).transitions, b[2]).target
               \in Range(TreePath(g, b[1]))}

\* C36: the number of cycle records is the number of transitions examined, in the
\* depth-first search from initial, with their target on the recursion stack, and each of
\* them yields the stack from its target on; nothing is deduplicated: a record occurs as
\* often as there are transitions from its last member to its first, and a reachable state
\* has as many records of itself alone as it has transitions to itself.
C36_OneRecordPerBackEdge ==
    Analyzed
        => LET g == job.parsed.graph
               cycles == job.analysis.cycles
           IN /\ \A c \in Range(cycles) :
                     Cardinality(RecordsOf(cycles, c))
                         = Cardinality(EventsTo(g, c[Len(c)], c[1]))
              /\ \A id \in ReachableIds(g) :
                     Cardinality(RecordsOf(cycles, <<id>>)) = Cardinality(EventsTo(g, id, id))
              /\ Len(cycles) = Cardinality(BackEdges(g))
              /\ \A b \in BackEdges(g) :
                     LET path == TreePath(g, b[1])
                         target == MapGet(MapGet(g.nodes, b[1]).transitions, b[2]).target
                     IN SubSeq(path, IndexOf(path, target), Len(path)) \in Range(cycles)

\* a graph was analyzed in which two events lead from a state back to an ancestor, and
\* two events from a state to itself: two pairs of equal records
C36_ParallelBackEdgesAnalyzed ==
    /\ Analyzed
    /\ \E c \in Range(job.analysis.cycles) :
           Len(c) = 2 /\ Cardinality(RecordsOf(job.analysis.cycles, c)) = 2
    /\ \E c \in Range(job.analysis.cycles) :
           Len(c) = 1 /\ Cardinality(RecordsOf(job.analysis.cycles, c)) = 2

---------------------------------------------------------------------------
(* Claims on the errors of a load *)

\* C37: whatever value is loaded, a failure of parseMachine is a ParserError with one of
\* the codes INVALID_SCHEMA, MISSING_INITIAL, INVALID_REFERENCE, and the error loadMachine
\* raised is the error the facade holds and getDiagnostics reports.  Holds for definitions
\* of the expected shape (SpecFacade); a null state or a null transition entry makes
\* parseMachine throw a TypeError, which is raised while a new ParserError is held
\* (SpecFacadeAnyInput).
C37_RaisedErrorIsReported ==
    (last.load # None /\ last.load[1].raised)
        => /\ last.load[1].thrown[1].code \in ParserErrorCodes
           /\ api.lastParserError = last.load[1].thrown
           /\ getDiagnostics(api) = formatParserError(last.load[1].thrown[1])

---------------------------------------------------------------------------
(* Claims on the graph read back from what graphToJSON wrote *)

\* the entry graphToJSON wrote for the event of a state
WrittenFor(json, id, event) == MapGet(MapGet(json.states[1], id).on[1], event)

\* C38: for a graph g built by parseMachine, parseMachine(graphToJSON(g)) succeeds and
\* yields a graph with the initial id, the node ids and kinds of g and, for every node,
\* the event table of g (target, guard and actions of every event); and graphToJSON
\* writes a transition as a bare string exactly when it has no guard and no actions.
\* An empty string as guard is not written, and is gone from the graph read back.
C38_RoundTripKeepsGraph ==
    /\ (job.source # None /\ job.phase = "parsed")
           => /\ job.parsed.ok
              /\ job.parsed.graph.initial = job.source[1].initial
              /\ MapKeys(job.parsed.graph.nodes) = MapKeys(job.source[1].nodes)
              /\ \A id \in Range(MapKeys(job.source[1].nodes)) :
                     LET was == MapGet(job.source[1].nodes, id)
                         is == MapGet(job.parsed.graph.nodes, id)
                     IN is.type = was.type /\ Range(is.transitions) = Range(was.transitions)
    /\ job.phase = "serialized"
           => \A n \in Range(job.parsed.graph.nodes) :
                  \A e \in Range(n.val.transitions) :
                      WrittenFor(job.json[1], n.key, e.key).isString
                          <=> (e.val.cond = None /\ e.val.actions = <<>>)

\* a transition, its guard absent where it is the empty string
WithGuardOrNone(t) == [t EXCEPT !.cond = IF @ = Some("") THEN None ELSE @]

\* C38, amended: the same, an empty string as guard counting as no guard: the graph read
\* back has the initial id, node ids, kinds and event tables of g, but for guards that were
\* the empty string, which are absent; a transition is written as a bare string exactly
\* when its guard is absent or empty and it has no actions.
C38_RoundTripKeepsGraphButEmptyGuards ==
    /\ (job.source # None /\ job.phase = "parsed")
           => /\ job.parsed.ok
              /\ job.parsed.graph.initial = job.source[1].initial
              /\ MapKeys(job.parsed.graph.nodes) = MapKeys(job.source[1].nodes)
              /\ \A id \in Range(MapKeys(job.source[1].nodes)) :
                     LET was == MapGet(job.source[1].nodes, id)
                         is == MapGet(job.parsed.graph.nodes, id)
                     IN /\ is.type = was.type
                        /\ MapKeys(is.transitions) = MapKeys(was.transitions)
                        /\ \A e \in Range(MapKeys(was.transitions)) :
                               MapGet(is.transitions, e)
                                   = WithGuardOrNone(MapGet(was.transitions, e))
    /\ job.phase = "serialized"
           => \A n \in Range(job.parsed.graph.nodes) :
                  \A e \in Range(n.val.transitions) :
                      WrittenFor(job.json[1], n.key, e.key).isString
                          <=> (WithGuardOrNone(e.val).cond = None /\ e.val.actions = <<>>)

\* a graph with an empty guard, a named guard and a transition with actions alone was
\* written and read back
C38_EmptyGuardReadBack ==
    /\ job.source # None /\ job.phase = "parsed"
    /\ \E n \in Range(job.source[1].nodes) :
           \E e \in Range(n.val.transitions) : e.val.cond = Some("")
    /\ \E n \in Range(job.source[1].nodes) :
           \E e \in Range(n.val.transitions) : e.val.cond = Some("isValid")

---------------------------------------------------------------------------
(* Claims on the editor's analysis *)

\* C39: for every definition parseMachine accepts, the editor's getReachability returns
\* the reachable set analyzeReachability finds on the parsed graph and the dead-end set
\* analyzeDeadEnds finds.  The editor follows bare-string targets only.
C39_EditorAgreesWithAnalyzer ==
    job.phase = "edited"
        => /\ Range(job.editor.reachable) = Range(job.analysis.reachable)
           /\ Range(job.editor.deadEnds) = Range(job.analysis.deadEnds)

====
